---- MODULE Spec2Model ----
(***************************************************************************)
(* Model of buttplug's GenericCommandManager                               *)
(* (server/device/protocol/generic_command_manager.rs): the per-device     *)
(* cache of last-sent actuator values, the scalar and rotation update      *)
(* paths, and the stop-command set computed at construction.               *)
(*                                                                         *)
(* Normalized command values (f64 in the code) are exact rationals         *)
(* <<numerator, denominator>>; every value used is dyadic, so the f64      *)
(* products and sums of the code are exact and the integer arithmetic      *)
(* below computes the same numbers.                                        *)
(***************************************************************************)
EXTENDS Integers, Sequences, FiniteSets, TLC

VARIABLES
  features,       \* GenericCommandManager.features: the DeviceFeature half
  cache,          \* GenericCommandManager.features: the CommandCache half
  sent_scalar,    \* GenericCommandManager.sent_scalar
  sent_rotation,  \* GenericCommandManager.sent_rotation
  stop_commands,  \* GenericCommandManager.stop_commands
  call,           \* the call whose result the caller holds, or NoCall
  pre,            \* the cache and the sent flags when that call was made
  last,           \* the call made right before it, or NoCall
  threads,        \* the update_scalar calls running concurrently on &self
  device_actuator, \* the client's handle on a device (its fields)
  message_sender, \* the messages the handle has handed to its message_sender
  client_call,    \* the client operation last called on the handle
  conversion,     \* a server message, the spec version asked for, the outcome
  emitted,        \* the value last emitted for each scalar feature, if any
  toy_info,       \* LovenseServiceToyInfo of each toy (connected, battery)
  watcher,        \* the connection check task of each LovenseServiceHardware
  event_sender    \* LovenseServiceHardware.event_sender of each toy

manager_vars == <<features, cache, sent_scalar, sent_rotation, stop_commands,
                  call, pre, last>>
client_vars == <<device_actuator, message_sender, client_call>>

hardware_vars == <<emitted, toy_info, watcher, event_sender>>

vars == <<manager_vars, threads, client_vars, conversion, hardware_vars>>

\* Longest subcommand list of a ScalarCmd / RotateCmd the model sends.
MaxSubcommands == 2

----------------------------------------------------------------------------
\* Option<T>
None == [some |-> FALSE]
Some(x) == [some |-> TRUE, val |-> x]

\* Result<T, ButtplugError>
Ok(x) == [ok |-> TRUE, val |-> x]
Err(e) == [ok |-> FALSE, err |-> e]

\* ButtplugDeviceError::ProtocolRequirementError(text): the text is kept as
\* the command name and the numbers formatted into it.
ProtocolRequirementError(cmd, numbers) ==
  [kind |-> "ProtocolRequirementError", cmd |-> cmd, numbers |-> numbers]

----------------------------------------------------------------------------
\* Device features.  actuator is None for a feature without an actuator
\* descriptor (a sensor).
Actuator(messages, start, end) ==
  Some([messages |-> messages, step_range |-> [start |-> start, end |-> end]])

Feature(feature_type, actuator) ==
  [feature_type |-> feature_type, actuator |-> actuator]

Vibrator(start, end) == Feature("Vibrate", Actuator({"ScalarCmd"}, start, end))
Rotator(start, end) == Feature("Rotate", Actuator({"RotateCmd"}, start, end))
ScalarRotator(start, end) ==
  Feature("Rotate", Actuator({"ScalarCmd", "RotateCmd"}, start, end))
BatterySensor == Feature("Battery", None)

\* The device layouts the manager is constructed for.
Devices ==
  { <<Vibrator(0, 20), Vibrator(0, 20)>>,
    <<Vibrator(10, 15), Vibrator(10, 20)>>,
    <<Rotator(0, 20), Rotator(0, 20)>>,
    <<Vibrator(0, 20), Rotator(0, 20)>>,
    <<Rotator(0, 20), Vibrator(10, 15)>>,
    <<ScalarRotator(0, 20)>>,
    <<BatterySensor>> }

\* CommandCache::default()
DefaultCommandCache == [scalar |-> 0, rotation_clockwise |-> FALSE]

----------------------------------------------------------------------------
\* The filter closure of new / update_scalar / update_rotation: the feature
\* has an actuator whose messages contain the command type.
Supports(feature, message_type) ==
  IF feature.actuator.some
    THEN message_type \in feature.actuator.val.messages
    ELSE FALSE

\* features.iter().filter(..).collect(): the positions (1-based) in feats of
\* the features that support message_type, in feature order.
RECURSIVE FilterFeatures(_, _, _)
FilterFeatures(feats, message_type, from) ==
  IF from > Len(feats) THEN <<>>
  ELSE IF Supports(feats[from], message_type)
    THEN <<from>> \o FilterFeatures(feats, message_type, from + 1)
    ELSE FilterFeatures(feats, message_type, from + 1)

ScalarFeatures(feats) == FilterFeatures(feats, "ScalarCmd", 1)
RotateFeatures(feats) == FilterFeatures(feats, "RotateCmd", 1)

----------------------------------------------------------------------------
\* Normalized values v = <<n, d>> (n / d) and the step arithmetic.

\* The literal 0.0001 of the speed computation.
Threshold == <<1, 10000>>

\* a / b < c / d for positive denominators
RatLess(a, b) == a[1] * b[2] < b[1] * a[2]

\* f64::ceil of n / d, d > 0, n >= 0
Ceil(n, d) == (n + d - 1) \div d

\* StepValue without the round-up: the sum is truncated by the cast alone.
StepValueTruncated(v, step_range) ==
  LET range_start == step_range.start
      range == step_range.end - range_start
      modifier == <<v[1] * range, v[2]>>
  IN IF RatLess(modifier, Threshold)
       THEN 0
       ELSE (modifier[1] + range_start * modifier[2]) \div modifier[2]

\* StepValue without the 0.0001 test: a zero command rounds to the range start.
StepValueWithoutThreshold(v, step_range) ==
  LET range_start == step_range.start
      range == step_range.end - range_start
      modifier == <<v[1] * range, v[2]>>
  IN Ceil(modifier[1] + range_start * modifier[2], modifier[2])

\* The speed computation of update_scalar and update_rotation:
\*   range = end - start; modifier = v * range;
\*   if modifier < 0.0001 { 0 } else { (modifier + start).ceil() as u32 }
StepValue(v, step_range) ==
  LET range_start == step_range.start
      range == step_range.end - range_start
      modifier == <<v[1] * range, v[2]>>
  IN IF RatLess(modifier, Threshold)
       THEN 0
       ELSE Ceil(modifier[1] + range_start * modifier[2], modifier[2])

----------------------------------------------------------------------------
\* Messages.
Zero == <<0, 1>>

ScalarSubcommand(index, scalar, actuator_type) ==
  [index |-> index, scalar |-> scalar, actuator_type |-> actuator_type]
RotationSubcommand(index, speed, clockwise) ==
  [index |-> index, speed |-> speed, clockwise |-> clockwise]
ScalarCmd(id, scalars) == [type |-> "ScalarCmd", id |-> id, scalars |-> scalars]
RotateCmd(id, rotations) ==
  [type |-> "RotateCmd", id |-> id, rotations |-> rotations]
VectorSubcommand(index, duration, position) ==
  [index |-> index, duration |-> duration, position |-> position]
LinearCmd(device_index, vectors) ==
  [type |-> "LinearCmd", device_index |-> device_index, vectors |-> vectors]

----------------------------------------------------------------------------
\* GenericCommandManager::new: the stop-command set.

\* ScalarStopSubcommands indexing each subcommand by the feature's position
\* in the whole feature list.
ScalarStopSubcommandsByFeatureIndex(feats) ==
  LET sf == ScalarFeatures(feats)
  IN [i \in 1..Len(sf) |->
        ScalarSubcommand(sf[i] - 1, Zero, feats[sf[i]].feature_type)]

\* ScalarStopSubcommands stopping the first scalar feature alone.
ScalarStopSubcommandsFirstOnly(feats) ==
  LET sf == ScalarFeatures(feats)
  IN [i \in 1..(IF Len(sf) > 0 THEN 1 ELSE 0) |->
        ScalarSubcommand(i - 1, Zero, feats[sf[i]].feature_type)]

\* filter(ScalarCmd).enumerate(): one zero subcommand per scalar feature,
\* indexed by its position among the scalar features.
ScalarStopSubcommands(feats) ==
  LET sf == ScalarFeatures(feats)
  IN [i \in 1..Len(sf) |->
        ScalarSubcommand(i - 1, Zero, feats[sf[i]].feature_type)]

\* filter(RotateCmd).enumerate(): one zero-speed, counter-clockwise
\* subcommand per rotate feature.
RotateStopSubcommands(feats) ==
  LET rf == RotateFeatures(feats)
  IN [i \in 1..Len(rf) |-> RotationSubcommand(i - 1, Zero, FALSE)]

NewStopCommands(feats) ==
  (IF ScalarStopSubcommands(feats) # <<>>
     THEN <<ScalarCmd(0, ScalarStopSubcommands(feats))>> ELSE <<>>)
  \o
  (IF RotateStopSubcommands(feats) # <<>>
     THEN <<RotateCmd(0, RotateStopSubcommands(feats))>> ELSE <<>>)

\* features.iter().map(|x| (x.clone(), CommandCache::default()))
NewCache(feats) == [i \in 1..Len(feats) |-> DefaultCommandCache]

----------------------------------------------------------------------------
\* The state a call works on: the cache cells, the sent flag of its command
\* family and the result vector under construction; err is set by the
\* early return of the loop.
CallState(c, sent, len) ==
  [cache |-> c, sent |-> sent, result |-> [i \in 1..len |-> None], err |-> None]

AllNone(result) == \A i \in 1..Len(result) : ~result[i].some

\* EmptyCommand with the check left out.
EmptyCommandUnchecked(subcommands) == FALSE

\* The is_empty() check that opens update_scalar and update_rotation.
EmptyCommand(subcommands) == subcommands = <<>>

\* The index check inside the loop.
IndexOutOfRange(index, capable) == index >= Len(capable)

\* IndexFailure skipping the offending subcommand instead of returning.
IndexFailureSkipped(st, cmd, count, capable) == st

\* The early return of the loop: Err(ProtocolRequirementError(format!(
\* "{cmd} has {} commands, device has {} features.", count, capable.len())))
IndexFailure(st, cmd, count, capable) ==
  [st EXCEPT !.err =
     Some(ProtocolRequirementError(cmd, <<count, Len(capable)>>))]

\* ScalarChanged without the first-send case.
ScalarChangedIgnoringSent(sent, scalar, current_scalar) ==
  scalar # current_scalar

\* ScalarChanged without the dedupe: every subcommand is sent.
ScalarChangedAlways(sent, scalar, current_scalar) == TRUE

\* The dedupe condition of update_scalar.
ScalarChanged(sent, scalar, current_scalar) ==
  ~sent \/ scalar # current_scalar

\* ScalarIteration emitting a changed value without storing it in the cache.
ScalarIterationUncached(st, scalar_command, scalar_features, feats, count) ==
  LET index == scalar_command.index
  IN IF IndexOutOfRange(index, scalar_features)
       THEN IndexFailure(st, "ScalarCmd", count, scalar_features)
       ELSE
         LET at == scalar_features[index + 1]
             scalar == StepValue(scalar_command.scalar,
                                 feats[at].actuator.val.step_range)
         IN IF ScalarChanged(st.sent, scalar, st.cache[at].scalar)
              THEN [st EXCEPT
                      !.result[index + 1] =
                        Some(<<feats[at].feature_type, scalar>>),
                      !.sent = TRUE]
              ELSE [st EXCEPT !.sent = TRUE]

\* One iteration of the loop of update_scalar over msg.scalars().
ScalarIteration(st, scalar_command, scalar_features, feats, count) ==
  LET index == scalar_command.index
  IN IF IndexOutOfRange(index, scalar_features)
       THEN IndexFailure(st, "ScalarCmd", count, scalar_features)
       ELSE
         LET at == scalar_features[index + 1]
             scalar == StepValue(scalar_command.scalar,
                                 feats[at].actuator.val.step_range)
             current_scalar == st.cache[at].scalar
             sent == st.sent
         IN IF ScalarChanged(sent, scalar, current_scalar)
              THEN [st EXCEPT
                      !.cache[at].scalar = scalar,
                      !.result[index + 1] =
                        Some(<<feats[at].feature_type, scalar>>),
                      !.sent = TRUE]
              ELSE [st EXCEPT !.sent = TRUE]

RECURSIVE ScalarLoop(_, _, _, _, _)
ScalarLoop(st, scalars, from, scalar_features, feats) ==
  IF from > Len(scalars) \/ st.err.some THEN st
  ELSE ScalarLoop(
         ScalarIteration(st, scalars[from], scalar_features, feats, Len(scalars)),
         scalars, from + 1, scalar_features, feats)

\* ScalarMatchAll filling the None slots with zero instead of the cache.
ScalarMatchAllZero(result, scalar_features, feats, c) ==
  [i \in 1..Len(result) |->
     IF result[i].some THEN result[i]
     ELSE Some(<<feats[scalar_features[i]].feature_type, 0>>)]

\* The match_all branch of update_scalar: every None slot takes the cached
\* scalar of its feature.
ScalarMatchAll(result, scalar_features, feats, c) ==
  [i \in 1..Len(result) |->
     IF result[i].some THEN result[i]
     ELSE Some(<<feats[scalar_features[i]].feature_type,
                 c[scalar_features[i]].scalar>>)]

\* ScalarFinish returning an all-None result as it is.
ScalarFinishUncleared(result, match_all, scalar_features, feats, c) ==
  IF match_all /\ ~AllNone(result)
    THEN ScalarMatchAll(result, scalar_features, feats, c)
    ELSE result

\* The tail of update_scalar: clear an all-None result, else fill it when
\* match_all is set.
ScalarFinish(result, match_all, scalar_features, feats, c) ==
  IF AllNone(result) THEN <<>>
  ELSE IF match_all THEN ScalarMatchAll(result, scalar_features, feats, c)
  ELSE result

\* GenericCommandManager::update_scalar: the cache, the flag and the value
\* it returns; raw is the result vector as the loop left it.
update_scalar(feats, c, sent, msg, match_all) ==
  IF EmptyCommand(msg.scalars)
    THEN [cache |-> c, sent |-> sent, raw |-> <<>>,
          ret |-> Err(ProtocolRequirementError("ScalarCmd", <<0>>))]
    ELSE
      LET scalar_features == ScalarFeatures(feats)
          st == ScalarLoop(CallState(c, sent, Len(scalar_features)),
                           msg.scalars, 1, scalar_features, feats)
      IN IF st.err.some
           THEN [cache |-> st.cache, sent |-> st.sent, raw |-> st.result,
                 ret |-> Err(st.err.val)]
           ELSE [cache |-> st.cache, sent |-> st.sent, raw |-> st.result,
                 ret |-> Ok(ScalarFinish(st.result, match_all,
                                         scalar_features, feats, st.cache))]

----------------------------------------------------------------------------
\* The dedupe condition of update_rotation: speed or direction differs.
RotationChanged(sent, speed, clockwise, current) ==
  \/ ~sent
  \/ speed # current.scalar
  \/ clockwise # current.rotation_clockwise

\* The cache cell update_rotation loads from and stores to for subcommand
\* index: self.features[index], the index-th feature of the whole list.
RotationCell(index, rotate_features) == index + 1

\* update_rotation reporting a stopped rotator without its direction.
RotationIterationUndirected(st, rotate_command, rotate_features, feats, count) ==
  LET index == rotate_command.index
  IN IF IndexOutOfRange(index, rotate_features)
       THEN IndexFailure(st, "RotateCmd", count, rotate_features)
       ELSE
         LET at == rotate_features[index + 1]
             cell == RotationCell(index, rotate_features)
             speed == StepValue(rotate_command.speed,
                                feats[at].actuator.val.step_range)
             clockwise == speed # 0 /\ rotate_command.clockwise
             sent == st.sent
         IN IF RotationChanged(sent, speed, clockwise, st.cache[cell])
              THEN [st EXCEPT
                      !.cache[cell] = [scalar |-> speed,
                                       rotation_clockwise |-> clockwise],
                      !.result[index + 1] = Some(<<speed, clockwise>>),
                      !.sent = TRUE]
              ELSE [st EXCEPT !.sent = TRUE]

\* One iteration of the loop of update_rotation over msg.rotations().  The
\* step range is read from rotate_features[index].
RotationIteration(st, rotate_command, rotate_features, feats, count) ==
  LET index == rotate_command.index
  IN IF IndexOutOfRange(index, rotate_features)
       THEN IndexFailure(st, "RotateCmd", count, rotate_features)
       ELSE
         LET at == rotate_features[index + 1]
             cell == RotationCell(index, rotate_features)
             speed == StepValue(rotate_command.speed,
                                feats[at].actuator.val.step_range)
             clockwise == rotate_command.clockwise
             sent == st.sent
         IN IF RotationChanged(sent, speed, clockwise, st.cache[cell])
              THEN [st EXCEPT
                      !.cache[cell] = [scalar |-> speed,
                                       rotation_clockwise |-> clockwise],
                      !.result[index + 1] = Some(<<speed, clockwise>>),
                      !.sent = TRUE]
              ELSE [st EXCEPT !.sent = TRUE]

RECURSIVE RotationLoop(_, _, _, _, _)
RotationLoop(st, rotations, from, rotate_features, feats) ==
  IF from > Len(rotations) \/ st.err.some THEN st
  ELSE RotationLoop(
         RotationIteration(st, rotations[from], rotate_features, feats,
                           Len(rotations)),
         rotations, from + 1, rotate_features, feats)

\* The match_all branch of update_rotation: every None slot takes the cached
\* pair of rotate_features[index].
RotationMatchAll(result, rotate_features, c) ==
  [i \in 1..Len(result) |->
     IF result[i].some THEN result[i]
     ELSE Some(<<c[rotate_features[i]].scalar,
                 c[rotate_features[i]].rotation_clockwise>>)]

\* RotationFinish clearing an all-None result as update_scalar does.
RotationFinishClearing(result, match_all, rotate_features, c) ==
  IF AllNone(result) THEN <<>>
  ELSE IF match_all THEN RotationMatchAll(result, rotate_features, c)
  ELSE result

\* The tail of update_rotation: the result is filled when match_all is set
\* and some slot changed; it is never cleared.
RotationFinish(result, match_all, rotate_features, c) ==
  IF match_all /\ ~AllNone(result)
    THEN RotationMatchAll(result, rotate_features, c)
    ELSE result

\* GenericCommandManager::update_rotation
update_rotation(feats, c, sent, msg, match_all) ==
  IF EmptyCommand(msg.rotations)
    THEN [cache |-> c, sent |-> sent, raw |-> <<>>,
          ret |-> Err(ProtocolRequirementError("RotateCmd", <<0>>))]
    ELSE
      LET rotate_features == RotateFeatures(feats)
          st == RotationLoop(CallState(c, sent, Len(rotate_features)),
                             msg.rotations, 1, rotate_features, feats)
      IN IF st.err.some
           THEN [cache |-> st.cache, sent |-> st.sent, raw |-> st.result,
                 ret |-> Err(st.err.val)]
           ELSE [cache |-> st.cache, sent |-> st.sent, raw |-> st.result,
                 ret |-> Ok(RotationFinish(st.result, match_all,
                                           rotate_features, st.cache))]

\* update_linear writing the commanded position into the addressed cell.
update_linear_storing(feats, c, msg) ==
  [cache |-> [p \in 1..Len(c) |->
                IF \E j \in 1..Len(msg.vectors) : msg.vectors[j].index + 1 = p
                  THEN [c[p] EXCEPT !.scalar = 1]
                  ELSE c[p]],
   ret |-> Ok(None)]

\* GenericCommandManager::_update_linear: the body is comments and Ok(None).
update_linear(feats, c, msg) == [cache |-> c, ret |-> Ok(None)]

----------------------------------------------------------------------------
\* Inputs.

\* Normalized values sent in ScalarCmd: 0, 2^-20, 1/2, 3/4 and 1.
ScalarValues == {Zero, <<1, 1048576>>, <<1, 2>>, <<3, 4>>, <<1, 1>>}

\* Normalized speeds sent in RotateCmd.
SpeedValues == {Zero, <<1, 2>>}

\* Subcommand indices sent to a device with n capable features: every valid
\* index and the first invalid one.
Indices(n) == 0..n

RECURSIVE SeqsUpTo(_, _)
SeqsUpTo(S, n) ==
  IF n = 0 THEN {<<>>}
  ELSE LET shorter == SeqsUpTo(S, n - 1)
       IN shorter \cup {Append(q, x) : q \in shorter, x \in S}

ScalarCmds(feats) ==
  { ScalarCmd(1, scalars) :
      scalars \in SeqsUpTo(
        { ScalarSubcommand(i, v, "Vibrate") :
            i \in Indices(Len(ScalarFeatures(feats))), v \in ScalarValues },
        MaxSubcommands) }

RotateCmds(feats) ==
  { RotateCmd(1, rotations) :
      rotations \in SeqsUpTo(
        { RotationSubcommand(i, v, cw) :
            i \in Indices(Len(RotateFeatures(feats))), v \in SpeedValues,
            cw \in BOOLEAN },
        MaxSubcommands) }

----------------------------------------------------------------------------
\* The manager's state as one value.
Snapshot == [cache |-> cache, sent_scalar |-> sent_scalar,
             sent_rotation |-> sent_rotation]

\* The state of a newly constructed manager.
NewSnapshot(feats) == [cache |-> NewCache(feats), sent_scalar |-> FALSE,
                       sent_rotation |-> FALSE]

NoCall == [op |-> "none"]

\* GenericCommandManager::new(features)
Init ==
  /\ features \in Devices
  /\ cache = NewCache(features)
  /\ sent_scalar = FALSE
  /\ sent_rotation = FALSE
  /\ stop_commands = NewStopCommands(features)
  /\ call = NoCall
  /\ pre = NewSnapshot(features)
  /\ last = NoCall
  /\ threads = <<>>
  /\ device_actuator = None
  /\ message_sender = <<>>
  /\ client_call = NoCall
  /\ conversion = None
  /\ emitted = <<>>
  /\ toy_info = <<>>
  /\ watcher = <<>>
  /\ event_sender = <<>>

\* A call of update_scalar(msg, match_all).
CallUpdateScalar(msg, match_all) ==
  LET r == update_scalar(features, cache, sent_scalar, msg, match_all)
  IN /\ cache' = r.cache
     /\ sent_scalar' = r.sent
     /\ call' = [op |-> "update_scalar", msg |-> msg, match_all |-> match_all,
                 new |-> Snapshot = NewSnapshot(features),
                 raw |-> r.raw, ret |-> r.ret]
     /\ pre' = Snapshot
     /\ last' = call
     /\ UNCHANGED <<features, sent_rotation, stop_commands>>
     /\ UNCHANGED <<threads, client_vars, conversion, hardware_vars>>

\* A call of update_rotation(msg, match_all).
CallUpdateRotation(msg, match_all) ==
  LET r == update_rotation(features, cache, sent_rotation, msg, match_all)
  IN /\ cache' = r.cache
     /\ sent_rotation' = r.sent
     /\ call' = [op |-> "update_rotation", msg |-> msg, match_all |-> match_all,
                 new |-> Snapshot = NewSnapshot(features),
                 raw |-> r.raw, ret |-> r.ret]
     /\ pre' = Snapshot
     /\ last' = call
     /\ UNCHANGED <<features, sent_scalar, stop_commands>>
     /\ UNCHANGED <<threads, client_vars, conversion, hardware_vars>>

\* The caller sends a ScalarCmd.
UpdateScalar ==
  /\ call = NoCall
  /\ \E msg \in ScalarCmds(features), match_all \in BOOLEAN :
       CallUpdateScalar(msg, match_all)

\* The caller sends the ScalarCmd it has just sent once more.
ResendScalar ==
  /\ call.op = "update_scalar"
  /\ last = NoCall
  /\ CallUpdateScalar(call.msg, call.match_all)

\* The caller sends a RotateCmd.
UpdateRotation ==
  /\ call = NoCall
  /\ \E msg \in RotateCmds(features), match_all \in BOOLEAN :
       CallUpdateRotation(msg, match_all)

\* The caller sends the RotateCmd it has just sent once more.
ResendRotation ==
  /\ call.op = "update_rotation"
  /\ last = NoCall
  /\ CallUpdateRotation(call.msg, call.match_all)

\* StopCommands marking the scalar family as sent.
StopCommandsMarkingSent ==
  /\ call = NoCall
  /\ call' = [op |-> "stop_commands", ret |-> stop_commands]
  /\ pre' = Snapshot
  /\ last' = call
  /\ sent_scalar' = TRUE
  /\ UNCHANGED <<features, cache, sent_rotation, stop_commands>>
  /\ UNCHANGED <<threads, client_vars, conversion, hardware_vars>>

\* LinearCmd messages handed to _update_linear: no vector, one vector for
\* the first feature, one vector past the last feature.
LinearCmds(feats) ==
  { LinearCmd(1, vectors) :
      vectors \in {<<>>, <<VectorSubcommand(0, 500, <<1, 2>>)>>,
                   <<VectorSubcommand(Len(feats), 500, <<1, 2>>)>>} }

\* A call of _update_linear(msg).
UpdateLinear ==
  /\ call = NoCall
  /\ \E msg \in LinearCmds(features) :
       LET r == update_linear(features, cache, msg)
       IN /\ cache' = r.cache
          /\ call' = [op |-> "_update_linear", msg |-> msg, ret |-> r.ret]
  /\ pre' = Snapshot
  /\ last' = call
  /\ UNCHANGED <<features, sent_scalar, sent_rotation, stop_commands>>
  /\ UNCHANGED <<threads, client_vars, conversion, hardware_vars>>

\* StopCommands handing out the stored list itself instead of a clone.
StopCommandsTaking ==
  /\ call = NoCall
  /\ call' = [op |-> "stop_commands", ret |-> stop_commands]
  /\ pre' = Snapshot
  /\ last' = call
  /\ stop_commands' = <<>>
  /\ UNCHANGED <<features, cache, sent_scalar, sent_rotation>>
  /\ UNCHANGED <<threads, client_vars, conversion, hardware_vars>>

\* GenericCommandManager::stop_commands: a clone of the stored list.
StopCommands ==
  /\ call = NoCall
  /\ call' = [op |-> "stop_commands", ret |-> stop_commands]
  /\ pre' = Snapshot
  /\ last' = call
  /\ UNCHANGED <<features, cache, sent_scalar, sent_rotation, stop_commands>>
  /\ UNCHANGED <<threads, client_vars, conversion, hardware_vars>>

\* The caller is done with the returned value.
Return ==
  /\ call # NoCall
  /\ call' = NoCall
  /\ pre' = Snapshot
  /\ last' = NoCall
  /\ UNCHANGED <<features, cache, sent_scalar, sent_rotation, stop_commands>>
  /\ UNCHANGED <<threads, client_vars, conversion, hardware_vars>>

Next ==
  \/ UpdateScalar
  \/ ResendScalar
  \/ UpdateRotation
  \/ ResendRotation
  \/ UpdateLinear
  \/ StopCommands
  \/ Return

Spec == Init /\ [][Next]_vars

\* A device with two rotators, the second of which takes ScalarCmd as well
\* and the first of which has a step range that does not start at 0.
Layouts == { <<Rotator(10, 15), ScalarRotator(0, 20)>> }

\* GenericCommandManager::new(features) for these devices.
InitLayouts ==
  /\ features \in Layouts
  /\ cache = NewCache(features)
  /\ sent_scalar = FALSE
  /\ sent_rotation = FALSE
  /\ stop_commands = NewStopCommands(features)
  /\ call = NoCall
  /\ pre = NewSnapshot(features)
  /\ last = NoCall
  /\ threads = <<>>
  /\ device_actuator = None
  /\ message_sender = <<>>
  /\ client_call = NoCall
  /\ conversion = None
  /\ emitted = <<>>
  /\ toy_info = <<>>
  /\ watcher = <<>>
  /\ event_sender = <<>>

SpecLayouts == InitLayouts /\ [][Next]_vars

TypeOK ==
  /\ features \in Devices \cup Layouts
  /\ sent_scalar \in BOOLEAN
  /\ sent_rotation \in BOOLEAN
  /\ DOMAIN cache = 1..Len(features)

----------------------------------------------------------------------------
\* Vocabulary of the properties.

ScalarCall == call.op = "update_scalar"
RotationCall == call.op = "update_rotation"

\* The positions of the features capable of a command family.
Capable(message_type) ==
  {p \in 1..Len(features) : Supports(features[p], message_type)}

\* The feature of slot i (1-based) of a family: the capable feature with
\* i - 1 capable features before it.
FeatureAt(message_type, i) ==
  CHOOSE p \in Capable(message_type) :
    Cardinality({q \in Capable(message_type) : q < p}) = i - 1

ScalarCount == Cardinality(Capable("ScalarCmd"))
RotateCount == Cardinality(Capable("RotateCmd"))
ScalarSlots == 1..ScalarCount

\* The subcommands of the call's command, whatever its family.
Subcommands ==
  IF ScalarCall THEN call.msg.scalars
  ELSE IF RotationCall THEN call.msg.rotations
  ELSE <<>>

AllInRange(subcommands, n) ==
  \A j \in 1..Len(subcommands) : subcommands[j].index < n

\* The subcommands addressed to slot i, and the last of them.
Addressing(subcommands, i) ==
  {j \in 1..Len(subcommands) : subcommands[j].index = i - 1}
LastAddressing(subcommands, i) ==
  CHOOSE j \in Addressing(subcommands, i) :
    \A k \in Addressing(subcommands, i) : k <= j

StepRange(p) == features[p].actuator.val.step_range

\* x is 0 when v * (e - s) < 0.0001 and ceil(v * (e - s) + s) otherwise,
\* the ceiling being the integer x with x - 1 < y <= x.
IsHardwareValue(x, v, range) ==
  LET span == range.end - range.start
      y == v[1] * span + range.start * v[2]     \* y / v[2] = v * span + s
  IN IF v[1] * span * 10000 < v[2]
       THEN x = 0
       ELSE (x - 1) * v[2] < y /\ y <= x * v[2]

\* The value update_scalar computes for subcommand j of the call.
Computed(j) ==
  StepValue(Subcommands[j].scalar,
            StepRange(FeatureAt("ScalarCmd", Subcommands[j].index + 1)))

----------------------------------------------------------------------------
\* C1: after a successful update_scalar, the hardware value of every
\* addressed scalar feature (its cached value, and the value in its slot when
\* the slot is emitted) is 0 when v * (e - s) < 0.0001 and
\* ceil(v * (e - s) + s) otherwise, v being the value of the last subcommand
\* addressed to it; range [10,15] with v = 1/2 gives 13 and range [0,20] with
\* v = 3/4 gives 15.
C1_HardwareValue ==
  (ScalarCall /\ call.ret.ok) =>
    \A i \in ScalarSlots :
      Addressing(Subcommands, i) # {} =>
        LET p == FeatureAt("ScalarCmd", i)
            v == Subcommands[LastAddressing(Subcommands, i)].scalar
            x == cache[p].scalar
        IN /\ IsHardwareValue(x, v, StepRange(p))
           /\ call.raw[i].some => call.raw[i].val = <<features[p].feature_type, x>>
           /\ (StepRange(p) = [start |-> 10, end |-> 15] /\ v = <<1, 2>>) => x = 13
           /\ (StepRange(p) = [start |-> 0, end |-> 20] /\ v = <<3, 4>>) => x = 15

C1_Witness ==
  /\ ScalarCall
  /\ features = <<Vibrator(10, 15), Vibrator(10, 20)>>
  /\ Subcommands = <<ScalarSubcommand(0, <<1, 2>>, "Vibrate"),
                     ScalarSubcommand(1, <<1, 1048576>>, "Vibrate")>>
  /\ call.ret = Ok(<<Some(<<"Vibrate", 13>>), None>>)

\* C2: in the first update_scalar call on a newly constructed manager the
\* slot of every addressed feature is Some, whatever its computed value; on
\* later calls a slot is Some only if a computed value differs from the
\* cached value.
C2_FirstCallEmitsEveryAddressed ==
  (ScalarCall /\ call.ret.ok) =>
    \A i \in ScalarSlots :
      LET p == FeatureAt("ScalarCmd", i)
      IN /\ (call.new /\ Addressing(Subcommands, i) # {}) =>
              (call.ret.val # <<>> /\ call.ret.val[i].some)
         /\ (pre.sent_scalar /\ call.raw[i].some) =>
              \E j \in Addressing(Subcommands, i) :
                Computed(j) # pre.cache[p].scalar

\* C3 as stated: for every ScalarCmd with at least one subcommand and all
\* indices in range, the first update_scalar on a newly constructed manager
\* returns a non-empty result and the same command sent again right after
\* returns the empty sequence.
Resent ==
  /\ ScalarCall
  /\ last # NoCall
  /\ last.new
  /\ last.msg = call.msg
  /\ last.match_all = call.match_all

ValidScalarCmd ==
  Subcommands # <<>> /\ AllInRange(Subcommands, ScalarCount)

C3_Idempotence ==
  (Resent /\ ValidScalarCmd) =>
    /\ last.ret.ok /\ last.ret.val # <<>>
    /\ call.ret = Ok(<<>>)

\* All subcommands addressed to the same feature compute the same value.
OneValuePerFeature ==
  \A j, k \in 1..Len(Subcommands) :
    Subcommands[j].index = Subcommands[k].index => Computed(j) = Computed(k)

\* C3 amended: the same, for the commands whose subcommands addressed to the
\* same feature all compute the same hardware value (every command that
\* addresses no feature twice is one).
C3_IdempotenceOneValuePerFeature ==
  (Resent /\ ValidScalarCmd /\ OneValuePerFeature) =>
    /\ last.ret.ok /\ last.ret.val # <<>>
    /\ call.ret = Ok(<<>>)

C3_Witness ==
  /\ Resent
  /\ features = <<Vibrator(0, 20), Vibrator(0, 20)>>
  /\ Subcommands = <<ScalarSubcommand(0, <<1, 2>>, "Vibrate"),
                     ScalarSubcommand(1, <<1, 2>>, "Vibrate")>>
  /\ last.ret = Ok(<<Some(<<"Vibrate", 10>>), Some(<<"Vibrate", 10>>)>>)
  /\ call.ret = Ok(<<>>)

\* C4: when update_scalar or update_rotation returns an error, every cached
\* scalar and direction and both sent flags are what they were before the
\* call.
C4_ErrorLeavesCacheUntouched ==
  ((ScalarCall \/ RotationCall) /\ ~call.ret.ok) => Snapshot = pre

\* The value computed by the last subcommand addressed to slot i.
LastComputed(i) == Computed(LastAddressing(Subcommands, i))

\* A successful update_scalar call made after a scalar command was sent.
LaterScalarCall == ScalarCall /\ call.ret.ok /\ pre.sent_scalar

\* The result with the trailing rule applied: empty when no slot is Some.
ClearedWhenAllNone(slots) == IF AllNone(slots) THEN <<>> ELSE slots

\* C5 as stated: with match_all = false, after a scalar command was sent,
\* slot i is Some(new value) exactly for the addressed features whose
\* computed value differs from the value cached before the call and None for
\* every other slot; the result is empty when no slot is Some.
C5_PartialResult ==
  (LaterScalarCall /\ ~call.match_all) =>
    call.ret.val = ClearedWhenAllNone(
      [i \in ScalarSlots |->
         LET p == FeatureAt("ScalarCmd", i)
         IN IF /\ Addressing(Subcommands, i) # {}
               /\ LastComputed(i) # pre.cache[p].scalar
              THEN Some(<<features[p].feature_type, LastComputed(i)>>)
              ELSE None])

\* C5 amended: slot i is Some exactly for the features addressed by at least
\* one subcommand whose computed value differs from the value cached before
\* the call; it holds the value computed by the last subcommand addressed to
\* the feature; every other slot is None and a result without a Some slot is
\* empty.
C5_PartialResultAnySubcommand ==
  (LaterScalarCall /\ ~call.match_all) =>
    call.ret.val = ClearedWhenAllNone(
      [i \in ScalarSlots |->
         LET p == FeatureAt("ScalarCmd", i)
         IN IF \E j \in Addressing(Subcommands, i) :
                 Computed(j) # pre.cache[p].scalar
              THEN Some(<<features[p].feature_type, LastComputed(i)>>)
              ELSE None])

C5_Witness ==
  /\ LaterScalarCall
  /\ ~call.match_all
  /\ features = <<Vibrator(0, 20), Vibrator(0, 20)>>
  /\ pre.cache[1].scalar = 10
  /\ pre.cache[2].scalar = 10
  /\ Subcommands = <<ScalarSubcommand(0, <<1, 2>>, "Vibrate"),
                     ScalarSubcommand(1, <<3, 4>>, "Vibrate")>>
  /\ call.ret = Ok(<<None, Some(<<"Vibrate", 15>>)>>)

\* C6: with match_all = true, when at least one slot changed the result of
\* update_scalar has no None entry, the changed slots hold their new value
\* and every other slot holds the cached value of its feature, which the
\* call left unchanged; when no slot changed the result is empty.
C6_MatchAllBackfill ==
  (ScalarCall /\ call.ret.ok /\ call.match_all) =>
    IF \E i \in ScalarSlots : call.raw[i].some
      THEN /\ Len(call.ret.val) = ScalarCount
           /\ \A i \in ScalarSlots :
                LET p == FeatureAt("ScalarCmd", i)
                IN IF call.raw[i].some
                     THEN call.ret.val[i] = call.raw[i]
                     ELSE /\ call.ret.val[i] =
                               Some(<<features[p].feature_type,
                                      pre.cache[p].scalar>>)
                          /\ cache[p] = pre.cache[p]
      ELSE call.ret.val = <<>> /\ cache = pre.cache

C6_Witness ==
  /\ ScalarCall
  /\ call.match_all
  /\ features = <<Vibrator(0, 20), Vibrator(0, 20)>>
  /\ pre.sent_scalar
  /\ call.raw = <<None, Some(<<"Vibrate", 15>>)>>
  /\ call.ret = Ok(<<Some(<<"Vibrate", 10>>), Some(<<"Vibrate", 15>>)>>)

\* The protocol-requirement error carrying the two counts.
CountError(count, capable) ==
  /\ ~call.ret.ok
  /\ call.ret.err.kind = "ProtocolRequirementError"
  /\ call.ret.err.numbers = <<count, capable>>

\* C7: update_scalar (update_rotation) returns a protocol-requirement error
\* whenever some subcommand, at any position, has an index >= the number of
\* ScalarCmd-capable (RotateCmd-capable) features, and the error carries the
\* command's subcommand count and that number of features.
C7_IndexOutOfRangeFails ==
  /\ (ScalarCall /\ ~AllInRange(Subcommands, ScalarCount)) =>
       CountError(Len(Subcommands), ScalarCount)
  /\ (RotationCall /\ ~AllInRange(Subcommands, RotateCount)) =>
       CountError(Len(Subcommands), RotateCount)

C7_Witness ==
  /\ RotationCall
  /\ features = <<Rotator(0, 20), Rotator(0, 20)>>
  /\ Len(Subcommands) = 2
  /\ Subcommands[1].index = 0
  /\ Subcommands[2].index = 2
  /\ call.ret = Err(ProtocolRequirementError("RotateCmd", <<2, 2>>))

\* C8: update_scalar and update_rotation called with zero subcommands return
\* a protocol-requirement error in every state and change no cache cell and
\* no sent flag.
C8_EmptyCommandFails ==
  ((ScalarCall \/ RotationCall) /\ Subcommands = <<>>) =>
    /\ ~call.ret.ok
    /\ call.ret.err.kind = "ProtocolRequirementError"
    /\ Snapshot = pre

C8_Witness ==
  /\ ScalarCall
  /\ Subcommands = <<>>
  /\ ~call.ret.ok
  /\ sent_scalar
  /\ \E p \in 1..Len(features) : cache[p].scalar # 0

\* The zero subcommands of a family's stop command: slot i - 1 for the i-th
\* capable feature.
ZeroScalars ==
  [i \in ScalarSlots |->
     ScalarSubcommand(i - 1, Zero,
                      features[FeatureAt("ScalarCmd", i)].feature_type)]
ZeroRotations ==
  [i \in 1..RotateCount |-> RotationSubcommand(i - 1, Zero, FALSE)]

\* C9: the stop-command list is one ScalarCmd with k zero subcommands
\* indexed 0..k-1 in feature order when k > 0 scalar features exist, followed
\* by one RotateCmd with m zero-speed, counter-clockwise subcommands indexed
\* 0..m-1 when m > 0 rotate features exist, and nothing else.
C9_StopCommandSet ==
  stop_commands =
    (IF ScalarCount > 0 THEN <<ScalarCmd(0, ZeroScalars)>> ELSE <<>>)
    \o (IF RotateCount > 0 THEN <<RotateCmd(0, ZeroRotations)>> ELSE <<>>)

C9_Witness ==
  /\ features = <<Rotator(0, 20), Vibrator(10, 15)>>
  /\ stop_commands =
       <<ScalarCmd(0, <<ScalarSubcommand(0, Zero, "Vibrate")>>),
         RotateCmd(0, <<RotationSubcommand(0, Zero, FALSE)>>)>>
  /\ call.op = "stop_commands"

\* C10: stop_commands() returns the list computed at construction in every
\* state, and the call changes no cached value and neither sent flag.
C10_StopCommandsPure ==
  call.op = "stop_commands" =>
    /\ call.ret = NewStopCommands(features)
    /\ Snapshot = pre

C10_Witness ==
  /\ call.op = "stop_commands"
  /\ sent_scalar
  /\ sent_rotation
  /\ \E p \in 1..Len(features) : cache[p] # DefaultCommandCache

----------------------------------------------------------------------------
\* Vocabulary of the rotation properties.

RotateSlots == 1..RotateCount

\* A successful update_rotation call made after a rotation command was sent.
LaterRotationCall == RotationCall /\ call.ret.ok /\ pre.sent_rotation

\* The pair update_rotation computes for subcommand j of the call.
ComputedPair(j) ==
  <<StepValue(Subcommands[j].speed,
              StepRange(FeatureAt("RotateCmd", Subcommands[j].index + 1))),
    Subcommands[j].clockwise>>

\* The (speed, direction) pair cached for feature p before the call.
CachedPair(p) == <<pre.cache[p].scalar, pre.cache[p].rotation_clockwise>>

\* C11: once a rotation command has been sent, the slot of a rotator is
\* Some((speed, clockwise)) if and only if the computed speed differs from
\* the rotator's cached speed or the commanded direction differs from its
\* cached direction (for a rotator addressed more than once: if and only if
\* one of its subcommands differs from the pair cached before the call).
C11_RotationChangeDetection ==
  LaterRotationCall =>
    \A i \in RotateSlots :
      LET p == FeatureAt("RotateCmd", i)
      IN call.ret.val[i].some <=>
           \E j \in Addressing(Subcommands, i) :
             \/ ComputedPair(j)[1] # CachedPair(p)[1]
             \/ ComputedPair(j)[2] # CachedPair(p)[2]

\* C12 as stated: when no addressed rotator's (speed, direction) changes,
\* update_rotation returns the empty sequence.
C12_RotationEmptyOnNoChange ==
  (RotationCall /\ call.ret.ok /\ AllNone(call.raw)) => call.ret.val = <<>>

\* C12 amended: when no addressed rotator's (speed, direction) changes,
\* update_rotation returns one None slot per RotateCmd-capable feature; the
\* sequence is not cleared.
C12_RotationAllNoneOnNoChange ==
  (RotationCall /\ call.ret.ok /\ AllNone(call.raw)) =>
    /\ call.ret.val = [i \in RotateSlots |-> None]
    /\ call.ret.val # <<>>
    /\ cache = pre.cache

C12_Witness ==
  /\ RotationCall
  /\ last.op = "update_rotation"
  /\ features = <<Rotator(0, 20), Rotator(0, 20)>>
  /\ Subcommands = <<RotationSubcommand(0, <<1, 2>>, TRUE),
                     RotationSubcommand(1, <<1, 2>>, TRUE)>>
  /\ call.match_all
  /\ last.ret = Ok(<<Some(<<10, TRUE>>), Some(<<10, TRUE>>)>>)
  /\ call.ret = Ok(<<None, None>>)

\* The features addressed by the in-range subcommands of a RotateCmd.
AddressedRotators ==
  {FeatureAt("RotateCmd", Subcommands[j].index + 1) :
     j \in {k \in 1..Len(Subcommands) : Subcommands[k].index < RotateCount}}

\* C13: update_rotation changes the cache of no feature other than the
\* RotateCmd-capable features its subcommands address, subcommand index i
\* addressing the i-th RotateCmd-capable feature, for every device layout.
C13_RotationWritesOnlyAddressed ==
  RotationCall =>
    \A p \in 1..Len(features) :
      p \notin AddressedRotators => cache[p] = pre.cache[p]

----------------------------------------------------------------------------
\* A call of the reserved linear path.
LinearCall == call # NoCall /\ call.op = "_update_linear"

\* C23: no update_scalar, update_rotation, _update_linear or stop_commands
\* call changes the feature sequence or the stop-command list of the
\* manager; the stop-command list stays the one computed at construction.
C23_FeaturesAndStopCommandsFixed ==
  /\ [](stop_commands = NewStopCommands(features))
  /\ [][features' = features /\ stop_commands' = stop_commands]_vars

C23_Witness ==
  /\ call # NoCall
  /\ call.op = "stop_commands"
  /\ sent_scalar
  /\ sent_rotation
  /\ cache # NewCache(features)
  /\ stop_commands # <<>>
  /\ stop_commands = NewStopCommands(features)

\* C24: the sent-scalar flag is true after every successful update_scalar
\* call, is never reset by any call, and is left as it was by an
\* update_scalar call that fails.
C24_SentScalarFlag ==
  /\ (ScalarCall /\ call.ret.ok) => sent_scalar
  /\ (call # NoCall /\ pre.sent_scalar) => sent_scalar
  /\ (ScalarCall /\ ~call.ret.ok) => sent_scalar = pre.sent_scalar

\* C26: _update_linear returns Ok(None) for every command in every state
\* and leaves every cache cell and both sent flags as they were.
C26_LinearPathInert ==
  LinearCall => (call.ret = Ok(None) /\ Snapshot = pre)

C26_Witness ==
  /\ LinearCall
  /\ call.msg.vectors # <<>>
  /\ call.msg.vectors[1].index = 0
  /\ sent_scalar
  /\ cache # NewCache(features)
  /\ call.ret = Ok(None)

\* The pair most recently emitted for rotator i before the call: the
\* rotator's cached pair, which is (0, false) until a pair was emitted for
\* it.
EmittedPair(i) == CachedPair(FeatureAt("RotateCmd", i))

\* C27: with match_all = true and at least one slot changed, the result of
\* update_rotation has no None entry, and the slot of every rotator the
\* call leaves unchanged holds (0, false) on the first rotation call of the
\* manager, no pair having been emitted for it.
C27_RotationMatchAllBackfill ==
  (RotationCall /\ call.ret.ok /\ call.match_all /\ ~AllNone(call.raw)) =>
    /\ \A i \in RotateSlots : call.ret.val[i].some
    /\ ~pre.sent_rotation =>
         \A i \in RotateSlots :
           ~call.raw[i].some => call.ret.val[i] = Some(<<0, FALSE>>)

\* C28: every pair update_rotation emits for a rotator is the hardware
\* speed of the last subcommand addressed to it, 0 when
\* speed * (e - s) < 0.0001 and ceil(speed * (e - s) + s) otherwise, with
\* that subcommand's direction flag; range [10,15] with speed 1/2 gives 13
\* and speed 0 gives 0 with the direction kept.
C28_RotationHardwareSpeed ==
  (RotationCall /\ call.ret.ok) =>
    \A i \in RotateSlots :
      call.raw[i].some =>
        /\ Addressing(Subcommands, i) # {}
        /\ LET p == FeatureAt("RotateCmd", i)
               sub == Subcommands[LastAddressing(Subcommands, i)]
               x == call.raw[i].val[1]
           IN /\ IsHardwareValue(x, sub.speed, StepRange(p))
              /\ call.raw[i].val[2] = sub.clockwise
              /\ call.ret.val[i] = call.raw[i]
              /\ (StepRange(p) = [start |-> 10, end |-> 15]
                    /\ sub.speed = <<1, 2>>) => x = 13
              /\ sub.speed = Zero => x = 0

C28_Witness ==
  /\ RotationCall
  /\ features = <<Rotator(10, 15), ScalarRotator(0, 20)>>
  /\ CachedPair(1) = <<13, TRUE>>
  /\ Subcommands = <<RotationSubcommand(0, Zero, TRUE)>>
  /\ call.ret = Ok(<<Some(<<0, TRUE>>), None>>)

\* A RotateCmd sent again right after it was served.
ResentRotation ==
  /\ RotationCall
  /\ last # NoCall
  /\ last.op = "update_rotation"
  /\ last.ret.ok
  /\ last.msg = call.msg

\* A RotateCmd, sent to a device with two rotators after a rotation command
\* was served, that changes rotator 1 and leaves rotator 0 as it is.
ChangesOnlyRotatorOne ==
  /\ LaterRotationCall
  /\ RotateCount = 2
  /\ \A j \in Addressing(Subcommands, 1) : ComputedPair(j) = EmittedPair(1)
  /\ \E j \in Addressing(Subcommands, 2) : ComputedPair(j) # EmittedPair(2)

\* All subcommands addressed to the same rotator compute the same pair.
OnePairPerRotator ==
  \A j, k \in 1..Len(Subcommands) :
    Subcommands[j].index = Subcommands[k].index =>
      ComputedPair(j) = ComputedPair(k)

\* C29 as stated: every Ok result of update_rotation has one slot per
\* RotateCmd-capable feature; on a device with two rotators and
\* match_all = false, a RotateCmd sent again returns [None, None] and a
\* command changing only rotator 1 returns [None, Some(new pair)].
C29_OneSlotPerRotator ==
  (RotationCall /\ call.ret.ok) =>
    /\ Len(call.ret.val) = RotateCount
    /\ (ResentRotation /\ RotateCount = 2 /\ ~call.match_all) =>
         call.ret.val = <<None, None>>
    /\ (ChangesOnlyRotatorOne /\ ~call.match_all) =>
         call.ret.val =
           <<None, Some(ComputedPair(LastAddressing(Subcommands, 2)))>>

\* C29 amended: the same, the RotateCmd sent again being one whose
\* subcommands addressed to the same rotator all compute the same pair
\* (every command that addresses no rotator twice is one).
C29_OneSlotPerRotatorOnePair ==
  (RotationCall /\ call.ret.ok) =>
    /\ Len(call.ret.val) = RotateCount
    /\ (ResentRotation /\ OnePairPerRotator /\ RotateCount = 2
          /\ ~call.match_all) =>
         call.ret.val = <<None, None>>
    /\ (ChangesOnlyRotatorOne /\ ~call.match_all) =>
         call.ret.val =
           <<None, Some(ComputedPair(LastAddressing(Subcommands, 2)))>>

C29_Witness ==
  /\ RotationCall
  /\ features = <<Rotator(0, 20), Rotator(0, 20)>>
  /\ ~call.match_all
  /\ pre.sent_rotation
  /\ Subcommands = <<RotationSubcommand(1, <<1, 2>>, TRUE)>>
  /\ call.ret = Ok(<<None, Some(<<10, TRUE>>)>>)

----------------------------------------------------------------------------
\* C32: after a successful update_scalar call the cached scalar of every
\* addressed feature is the hardware value computed from the last
\* subcommand addressed to it and the cache of every other feature is what
\* it was before the call, with either match_all setting: the match_all
\* backfill writes no cell.
C32_ScalarCacheFrame ==
  (ScalarCall /\ call.ret.ok) =>
    \A p \in 1..Len(features) :
      /\ cache[p].rotation_clockwise = pre.cache[p].rotation_clockwise
      /\ IF \E i \in ScalarSlots :
              FeatureAt("ScalarCmd", i) = p /\ Addressing(Subcommands, i) # {}
           THEN \A i \in ScalarSlots :
                  FeatureAt("ScalarCmd", i) = p =>
                    cache[p].scalar = LastComputed(i)
           ELSE cache[p] = pre.cache[p]

\* A match_all call changes feature 0 of two vibrators whose feature 1 was
\* set before: slot 1 is backfilled with 10 and the cell of feature 1 keeps
\* it.
C32_Witness ==
  /\ ScalarCall
  /\ call.match_all
  /\ features = <<Vibrator(0, 20), Vibrator(0, 20)>>
  /\ pre.cache[1].scalar = 0
  /\ pre.cache[2].scalar = 10
  /\ Subcommands = <<ScalarSubcommand(0, <<3, 4>>, "Vibrate")>>
  /\ call.ret = Ok(<<Some(<<"Vibrate", 15>>), Some(<<"Vibrate", 10>>)>>)
  /\ cache[1].scalar = 15
  /\ cache[2].scalar = 10

\* C34: every hardware value update_scalar emits for a feature with step
\* range [s, e] is 0 or lies in s + 1 .. e.
C34_EmittedValueInRange ==
  (ScalarCall /\ call.ret.ok) =>
    \A i \in ScalarSlots :
      call.raw[i].some =>
        LET range == StepRange(FeatureAt("ScalarCmd", i))
            x == call.raw[i].val[2]
        IN x = 0 \/ (range.start < x /\ x <= range.end)

\* On range [10,15] the command 2^-20 emits 0 and the command 1 emits 15.
C34_Witness ==
  /\ ScalarCall
  /\ features = <<Vibrator(10, 15), Vibrator(10, 20)>>
  /\ call.new
  /\ Subcommands = <<ScalarSubcommand(0, <<1, 1048576>>, "Vibrate"),
                     ScalarSubcommand(1, <<1, 1>>, "Vibrate")>>
  /\ call.ret = Ok(<<Some(<<"Vibrate", 0>>), Some(<<"Vibrate", 20>>)>>)

\* C35: every Ok result of update_scalar is the empty sequence or has one
\* slot per ScalarCmd-capable feature, at least one of them Some.
C35_ScalarResultShape ==
  (ScalarCall /\ call.ret.ok) =>
    \/ call.ret.val = <<>>
    \/ /\ Len(call.ret.val) = ScalarCount
       /\ \E i \in ScalarSlots : call.ret.val[i].some

\* A later call that changes nothing returns the empty sequence, its loop
\* having left two None slots.
C35_Witness ==
  /\ LaterScalarCall
  /\ ~call.match_all
  /\ ScalarCount = 2
  /\ call.raw = <<None, None>>
  /\ call.ret = Ok(<<>>)

----------------------------------------------------------------------------
\* update_scalar called from several threads on one manager.
\*
\* update_scalar takes &self and works on the cells with separate Relaxed
\* atomic operations, so concurrent calls interleave between any two of
\* them.  A step below is one atomic operation on the shared state together
\* with the thread-local computation that leads to it.

\* Longest subcommand list of a ScalarCmd sent by a concurrent caller.
MaxConcurrentSubcommands == 1

Threads == {1, 2}

\* The device the concurrent callers drive: two vibrators of 20 steps.
ConcurrentDevice == <<Vibrator(0, 20), Vibrator(0, 20)>>

\* Normalized values sent by the concurrent callers: 1/2 and 3/4.
ConcurrentValues == {<<1, 2>>, <<3, 4>>}

\* Every valid index with every value (index errors are the business of
\* Spec, where one caller drives the manager).
ConcurrentSubcommands(feats) ==
  { ScalarSubcommand(i - 1, v, "Vibrate") :
      i \in 1..Len(ScalarFeatures(feats)), v \in ConcurrentValues }

ConcurrentCmds(feats) ==
  { ScalarCmd(1, scalars) :
      scalars \in SeqsUpTo(ConcurrentSubcommands(feats),
                           MaxConcurrentSubcommands) }

\* The states of the manager in which the concurrent calls start: a new
\* manager, or one that has served a ScalarCmd setting feature 0 to 1/2.
ConcurrentSnapshots(feats) ==
  { NewSnapshot(feats),
    [cache |-> update_scalar(feats, NewCache(feats), FALSE,
                 ScalarCmd(1, <<ScalarSubcommand(0, <<1, 2>>, "Vibrate")>>),
                 FALSE).cache,
     sent_scalar |-> TRUE, sent_rotation |-> FALSE] }

Idle == [pc |-> "idle"]

\* The locals of update_scalar after the empty check, the filter and the
\* allocation of result (lines 113-140).
BeginUpdateScalar(msg, match_all, feats) ==
  IF EmptyCommand(msg.scalars)
    THEN [pc |-> "done", msg |-> msg, match_all |-> match_all,
          position |-> 0, current_scalar |-> 0, sent_scalar |-> FALSE,
          loads |-> <<>>, result |-> <<>>, slot |-> 0,
          ret |-> Err(ProtocolRequirementError("ScalarCmd", <<0>>))]
    ELSE [pc |-> "load_scalar", msg |-> msg, match_all |-> match_all,
          position |-> 1, current_scalar |-> 0, sent_scalar |-> FALSE,
          loads |-> <<>>,
          result |-> [i \in 1..Len(ScalarFeatures(feats)) |-> None],
          slot |-> 0, ret |-> None]

\* The subcommand the loop of a thread is at, the feature it addresses and
\* the hardware value computed for it (lines 142-167).
ThreadSubcommand(th) == th.msg.scalars[th.position]
ThreadCell(th, feats) == ScalarFeatures(feats)[ThreadSubcommand(th).index + 1]
ThreadScalar(th, feats) ==
  StepValue(ThreadSubcommand(th).scalar,
            feats[ThreadCell(th, feats)].actuator.val.step_range)

\* The end of one loop iteration.
NextSubcommand(th) ==
  IF th.position = Len(th.msg.scalars)
    THEN [th EXCEPT !.pc = "finish"]
    ELSE [th EXCEPT !.pc = "load_scalar", !.position = @ + 1]

\* CurrentScalar reading the cell again when the comparison is made.
CurrentScalarReloaded(th, c, at) == c[at].scalar

\* The value the comparison of line 180 uses: the local current_scalar,
\* loaded at line 178.
CurrentScalar(th, c, at) == th.current_scalar

\* ThreadCell with every subcommand landing on the first capable feature.
StoredCellShared(th, feats) == ScalarFeatures(feats)[1]

\* The cell the store of line 181 writes.
StoredCell(th, feats) == ThreadCell(th, feats)

\* A thread enters update_scalar(msg, match_all); the threads are numbered
\* in the order in which they enter.
ThreadCall ==
  \E t \in Threads, msg \in ConcurrentCmds(features), match_all \in BOOLEAN :
    /\ threads[t] = Idle
    /\ \A u \in Threads : u < t => threads[u] # Idle
    /\ threads' = [threads EXCEPT
                     ![t] = BeginUpdateScalar(msg, match_all, features)]
    /\ UNCHANGED <<manager_vars, client_vars, conversion, hardware_vars>>

\* The index check and scalar_features[index].1.scalar().load(Relaxed).
LoadScalar ==
  \E t \in Threads :
    LET th == threads[t]
    IN /\ th.pc = "load_scalar"
       /\ threads' = [threads EXCEPT ![t] =
            IF IndexOutOfRange(ThreadSubcommand(th).index,
                               ScalarFeatures(features))
              THEN [th EXCEPT
                      !.pc = "done",
                      !.ret = Err(ProtocolRequirementError("ScalarCmd",
                                <<Len(th.msg.scalars),
                                  Len(ScalarFeatures(features))>>))]
              ELSE [th EXCEPT
                      !.pc = "load_sent",
                      !.current_scalar =
                         cache[ThreadCell(th, features)].scalar]]
       /\ UNCHANGED <<manager_vars, client_vars, conversion, hardware_vars>>

\* self.sent_scalar.load(Relaxed) and the comparison that follows it.
LoadSent ==
  \E t \in Threads :
    LET th == threads[t]
        loaded == [th EXCEPT
                     !.sent_scalar = sent_scalar,
                     !.loads = Append(@, [current_scalar |-> th.current_scalar,
                                          sent_scalar |-> sent_scalar])]
    IN /\ th.pc = "load_sent"
       /\ threads' = [threads EXCEPT ![t] =
            IF ScalarChanged(sent_scalar, ThreadScalar(th, features),
                             CurrentScalar(th, cache, ThreadCell(th, features)))
              THEN [loaded EXCEPT !.pc = "store_scalar"]
              ELSE NextSubcommand(loaded)]
       /\ UNCHANGED <<manager_vars, client_vars, conversion, hardware_vars>>

\* scalar_features[index].1.scalar().store(scalar, Relaxed) and the
\* assignment of result[index].
StoreScalar ==
  \E t \in Threads :
    LET th == threads[t]
        scalar == ThreadScalar(th, features)
        stored == [th EXCEPT
                     !.result[ThreadSubcommand(th).index + 1] =
                        Some(<<features[ThreadCell(th, features)].feature_type,
                               scalar>>)]
    IN /\ th.pc = "store_scalar"
       /\ cache' = [cache EXCEPT ![StoredCell(th, features)].scalar = scalar]
       /\ threads' = [threads EXCEPT ![t] =
            IF ~th.sent_scalar
              THEN [stored EXCEPT !.pc = "store_sent"]
              ELSE NextSubcommand(stored)]
       /\ UNCHANGED <<features, sent_scalar, sent_rotation, stop_commands,
                      call, pre, last, client_vars, conversion, hardware_vars>>

\* self.sent_scalar.store(true, Relaxed)
StoreSent ==
  \E t \in Threads :
    LET th == threads[t]
    IN /\ th.pc = "store_sent"
       /\ sent_scalar' = TRUE
       /\ threads' = [threads EXCEPT ![t] = NextSubcommand(th)]
       /\ UNCHANGED <<features, cache, sent_rotation, stop_commands,
                      call, pre, last, client_vars, conversion, hardware_vars>>

\* The test after the loop: clear an all-None result, or enter the match_all
\* loop, or return the result as it is.
Finish ==
  \E t \in Threads :
    LET th == threads[t]
    IN /\ th.pc = "finish"
       /\ threads' = [threads EXCEPT ![t] =
            IF AllNone(th.result)
              THEN [th EXCEPT !.pc = "done", !.ret = Ok(<<>>)]
            ELSE IF th.match_all
              THEN [th EXCEPT !.pc = "match_all", !.slot = 1]
            ELSE [th EXCEPT !.pc = "done", !.ret = Ok(th.result)]]
       /\ UNCHANGED <<manager_vars, client_vars, conversion, hardware_vars>>

\* One iteration of the match_all loop: a None slot takes cmd.scalar().load.
MatchAllLoad ==
  \E t \in Threads :
    LET th == threads[t]
        at == ScalarFeatures(features)[th.slot]
        filled == IF th.result[th.slot].some THEN th.result
                  ELSE [th.result EXCEPT ![th.slot] =
                          Some(<<features[at].feature_type, cache[at].scalar>>)]
    IN /\ th.pc = "match_all"
       /\ threads' = [threads EXCEPT ![t] =
            IF th.slot = Len(th.result)
              THEN [th EXCEPT !.pc = "done", !.result = filled,
                              !.ret = Ok(filled)]
              ELSE [th EXCEPT !.result = filled, !.slot = @ + 1]]
       /\ UNCHANGED <<manager_vars, client_vars, conversion, hardware_vars>>

\* A manager shared by the threads, none of which has called yet.
InitConcurrent ==
  /\ features = ConcurrentDevice
  /\ \E s \in ConcurrentSnapshots(features) :
       /\ cache = s.cache
       /\ sent_scalar = s.sent_scalar
       /\ sent_rotation = s.sent_rotation
       /\ pre = s
  /\ stop_commands = NewStopCommands(features)
  /\ call = NoCall
  /\ last = NoCall
  /\ threads = [t \in Threads |-> Idle]
  /\ device_actuator = None
  /\ message_sender = <<>>
  /\ client_call = NoCall
  /\ conversion = None
  /\ emitted = <<>>
  /\ toy_info = <<>>
  /\ watcher = <<>>
  /\ event_sender = <<>>

NextConcurrent ==
  \/ ThreadCall
  \/ LoadScalar
  \/ LoadSent
  \/ StoreScalar
  \/ StoreSent
  \/ Finish
  \/ MatchAllLoad

SpecConcurrent == InitConcurrent /\ [][NextConcurrent]_vars

----------------------------------------------------------------------------
\* Concurrent calls.

\* The subcommands of a thread's message that address result slot i.
ThreadAddressing(th, i) ==
  {j \in 1..Len(th.msg.scalars) : th.msg.scalars[j].index + 1 = i}

\* The hardware value of the j-th subcommand of a thread's message.
ThreadComputed(th, j) ==
  StepValue(th.msg.scalars[j].scalar,
            StepRange(FeatureAt("ScalarCmd", th.msg.scalars[j].index + 1)))

\* The feature indices a thread's message addresses.
ThreadIndices(th) ==
  {th.msg.scalars[j].index : j \in 1..Len(th.msg.scalars)}

BothDone == \A t \in Threads : threads[t].pc = "done"

\* C14: the load, the comparison and the store of update_scalar are separate
\* steps. A call that has left its loop emits Some for a feature exactly when
\* a subcommand addressing it differs from the value the call itself loaded
\* for that subcommand (or the loaded flag was false), whatever another call
\* has stored in the cell since: two calls that loaded the same old value
\* both emit.
C14_DecisionOnLoadedValue ==
  \A t \in Threads :
    threads[t].pc = "finish" =>
      \A i \in ScalarSlots :
        threads[t].result[i].some <=>
          \E j \in ThreadAddressing(threads[t], i) :
            \/ ~threads[t].loads[j].sent_scalar
            \/ ThreadComputed(threads[t], j) # threads[t].loads[j].current_scalar

\* Both calls set feature 1 to 1/2 on a manager that has already sent; both
\* loaded the old value 0 and both emitted the new value 10.
C14_Witness ==
  /\ BothDone
  /\ pre.sent_scalar
  /\ pre.cache[2].scalar = 0
  /\ \A t \in Threads :
       /\ threads[t].msg =
            ScalarCmd(1, <<ScalarSubcommand(1, <<1, 2>>, "Vibrate")>>)
       /\ ~threads[t].match_all
       /\ threads[t].loads = <<[current_scalar |-> 0, sent_scalar |-> TRUE]>>
       /\ threads[t].ret = Ok(<<None, Some(<<"Vibrate", 10>>)>>)

\* The results and the cache of the two calls made one after the other.
Sequential(first, second) ==
  LET a == update_scalar(features, pre.cache, pre.sent_scalar,
                         threads[first].msg, threads[first].match_all)
      b == update_scalar(features, a.cache, a.sent,
                         threads[second].msg, threads[second].match_all)
  IN [first_ret |-> a.ret, second_ret |-> b.ret, cache |-> b.cache]

AsSequential(first, second) ==
  /\ threads[first].ret = Sequential(first, second).first_ret
  /\ threads[second].ret = Sequential(first, second).second_ret
  /\ cache = Sequential(first, second).cache

DisjointCalls ==
  /\ BothDone
  /\ pre.sent_scalar
  /\ \A t \in Threads : ~threads[t].match_all
  /\ ThreadIndices(threads[1]) \cap ThreadIndices(threads[2]) = {}

\* C15: two concurrent update_scalar calls with match_all = false on
\* disjoint feature indices, made when sent_scalar is already true, end
\* under every interleaving with the results and the cache of the two calls
\* run one after the other, in either order.
C15_DisjointCallsDoNotInterfere ==
  DisjointCalls => AsSequential(1, 2) /\ AsSequential(2, 1)

\* One call sets feature 0 to 3/4, the other sets feature 1 to 1/2.
C15_Witness ==
  /\ DisjointCalls
  /\ threads[1].msg = ScalarCmd(1, <<ScalarSubcommand(0, <<3, 4>>, "Vibrate")>>)
  /\ threads[2].msg = ScalarCmd(1, <<ScalarSubcommand(1, <<1, 2>>, "Vibrate")>>)
  /\ threads[1].ret = Ok(<<Some(<<"Vibrate", 15>>), None>>)
  /\ threads[2].ret = Ok(<<None, Some(<<"Vibrate", 10>>)>>)
  /\ cache[1].scalar = 15
  /\ cache[2].scalar = 10

----------------------------------------------------------------------------
\* update_rotation called from several threads on one manager.
\*
\* As update_scalar, update_rotation takes &self; the speed and the
\* direction of a rotator are two cells, each loaded and stored by its own
\* Relaxed operation (lines 295-300).

\* The device the concurrent rotation callers drive: two rotators of 20
\* steps.
ConcurrentRotators == <<Rotator(0, 20), Rotator(0, 20)>>

\* The callers address rotator 0, with 1/2 clockwise or 3/4 anticlockwise.
ConcurrentRotations ==
  { RotationSubcommand(0, <<1, 2>>, TRUE),
    RotationSubcommand(0, <<3, 4>>, FALSE) }

ConcurrentRotateCmds ==
  { RotateCmd(1, rotations) :
      rotations \in SeqsUpTo(ConcurrentRotations, MaxConcurrentSubcommands) }

\* The states of the manager in which the concurrent calls start: a new
\* manager, or one that has served a RotateCmd setting rotator 0 to 1/2
\* clockwise.
ConcurrentRotationSnapshots(feats) ==
  { NewSnapshot(feats),
    [cache |-> update_rotation(feats, NewCache(feats), FALSE,
                 RotateCmd(1, <<RotationSubcommand(0, <<1, 2>>, TRUE)>>),
                 FALSE).cache,
     sent_scalar |-> FALSE, sent_rotation |-> TRUE] }

\* The locals of update_rotation after the empty check, the filter and the
\* allocation of result (lines 233-259).
BeginUpdateRotation(msg, match_all, feats) ==
  IF EmptyCommand(msg.rotations)
    THEN [pc |-> "done", msg |-> msg, match_all |-> match_all,
          position |-> 0, sent_rotation |-> FALSE, result |-> <<>>,
          slot |-> 0, loaded |-> 0,
          ret |-> Err(ProtocolRequirementError("RotateCmd", <<0>>))]
    ELSE [pc |-> "load_sent", msg |-> msg, match_all |-> match_all,
          position |-> 1, sent_rotation |-> FALSE,
          result |-> [i \in 1..Len(RotateFeatures(feats)) |-> None],
          slot |-> 0, loaded |-> 0, ret |-> None]

ThreadRotation(th) == th.msg.rotations[th.position]
\* The cell of self.features[index].
ThreadRotationCell(th, feats) ==
  RotationCell(ThreadRotation(th).index, RotateFeatures(feats))
\* The speed computed from the range of rotate_features[index].
ThreadSpeed(th, feats) ==
  StepValue(ThreadRotation(th).speed,
            feats[RotateFeatures(feats)[ThreadRotation(th).index + 1]]
              .actuator.val.step_range)

\* The end of one loop iteration.
NextRotation(th) ==
  IF th.position = Len(th.msg.rotations)
    THEN [th EXCEPT !.pc = "finish"]
    ELSE [th EXCEPT !.pc = "load_sent", !.position = @ + 1]

\* The end of the if block of lines 296-302, and the test of line 303.
AfterRotationStore(th) ==
  IF ~th.sent_rotation
    THEN [th EXCEPT !.pc = "store_sent"]
    ELSE NextRotation(th)

\* A thread enters update_rotation(msg, match_all); the threads are numbered
\* in the order in which they enter.
RotationThreadCall ==
  \E t \in Threads, msg \in ConcurrentRotateCmds, match_all \in BOOLEAN :
    /\ threads[t] = Idle
    /\ \A u \in Threads : u < t => threads[u] # Idle
    /\ threads' = [threads EXCEPT
                     ![t] = BeginUpdateRotation(msg, match_all, features)]
    /\ UNCHANGED <<manager_vars, client_vars, conversion, hardware_vars>>

\* The index check, the speed computation and
\* self.sent_rotation.load(Relaxed); a false flag decides the comparison.
LoadSentRotation ==
  \E t \in Threads :
    LET th == threads[t]
    IN /\ th.pc = "load_sent"
       /\ threads' = [threads EXCEPT ![t] =
            IF IndexOutOfRange(ThreadRotation(th).index,
                               RotateFeatures(features))
              THEN [th EXCEPT
                      !.pc = "done",
                      !.ret = Err(ProtocolRequirementError("RotateCmd",
                                <<Len(th.msg.rotations),
                                  Len(RotateFeatures(features))>>))]
            ELSE IF ~sent_rotation
              THEN [th EXCEPT !.pc = "store_scalar",
                              !.sent_rotation = sent_rotation]
            ELSE [th EXCEPT !.pc = "load_scalar",
                            !.sent_rotation = sent_rotation]]
       /\ UNCHANGED <<manager_vars, client_vars, conversion, hardware_vars>>

\* speed != self.features[index].1.scalar().load(Relaxed)
LoadRotationScalar ==
  \E t \in Threads :
    LET th == threads[t]
    IN /\ th.pc = "load_scalar"
       /\ threads' = [threads EXCEPT ![t] =
            IF ThreadSpeed(th, features)
                 # cache[ThreadRotationCell(th, features)].scalar
              THEN [th EXCEPT !.pc = "store_scalar"]
              ELSE [th EXCEPT !.pc = "load_clockwise"]]
       /\ UNCHANGED <<manager_vars, client_vars, conversion, hardware_vars>>

\* clockwise != self.features[index].1.rotation_clockwise().load(Relaxed)
LoadRotationClockwise ==
  \E t \in Threads :
    LET th == threads[t]
    IN /\ th.pc = "load_clockwise"
       /\ threads' = [threads EXCEPT ![t] =
            IF ThreadRotation(th).clockwise
                 # cache[ThreadRotationCell(th, features)].rotation_clockwise
              THEN [th EXCEPT !.pc = "store_scalar"]
              ELSE AfterRotationStore(th)]
       /\ UNCHANGED <<manager_vars, client_vars, conversion, hardware_vars>>

\* self.features[index].1.scalar().store(speed, Relaxed)
StoreRotationScalar ==
  \E t \in Threads :
    LET th == threads[t]
    IN /\ th.pc = "store_scalar"
       /\ cache' = [cache EXCEPT ![ThreadRotationCell(th, features)].scalar =
                      ThreadSpeed(th, features)]
       /\ threads' = [threads EXCEPT ![t] = [th EXCEPT !.pc = "store_clockwise"]]
       /\ UNCHANGED <<features, sent_scalar, sent_rotation, stop_commands,
                      call, pre, last, client_vars, conversion, hardware_vars>>

\* self.features[index].1.rotation_clockwise().store(clockwise, Relaxed) and
\* the assignment of result[index].
StoreRotationClockwise ==
  \E t \in Threads :
    LET th == threads[t]
        stored == [th EXCEPT
                     !.result[ThreadRotation(th).index + 1] =
                        Some(<<ThreadSpeed(th, features),
                               ThreadRotation(th).clockwise>>)]
    IN /\ th.pc = "store_clockwise"
       /\ cache' = [cache EXCEPT
                      ![ThreadRotationCell(th, features)].rotation_clockwise =
                        ThreadRotation(th).clockwise]
       /\ threads' = [threads EXCEPT ![t] = AfterRotationStore(stored)]
       /\ UNCHANGED <<features, sent_scalar, sent_rotation, stop_commands,
                      call, pre, last, client_vars, conversion, hardware_vars>>

\* self.sent_rotation.store(true, Relaxed)
StoreSentRotation ==
  \E t \in Threads :
    LET th == threads[t]
    IN /\ th.pc = "store_sent"
       /\ sent_rotation' = TRUE
       /\ threads' = [threads EXCEPT ![t] = NextRotation(th)]
       /\ UNCHANGED <<features, cache, sent_scalar, stop_commands,
                      call, pre, last, client_vars, conversion, hardware_vars>>

\* The test after the loop: enter the match_all loop, or return the result
\* as it is.
FinishRotation ==
  \E t \in Threads :
    LET th == threads[t]
    IN /\ th.pc = "finish"
       /\ threads' = [threads EXCEPT ![t] =
            IF th.match_all /\ ~AllNone(th.result)
              THEN [th EXCEPT !.pc = "match_all_scalar", !.slot = 1]
              ELSE [th EXCEPT !.pc = "done", !.ret = Ok(th.result)]]
       /\ UNCHANGED <<manager_vars, client_vars, conversion, hardware_vars>>

\* The end of one iteration of the match_all loop.
NextSlot(th) ==
  IF th.slot = Len(th.result)
    THEN [th EXCEPT !.pc = "done", !.ret = Ok(th.result)]
    ELSE [th EXCEPT !.pc = "match_all_scalar", !.slot = @ + 1]

\* One iteration of the match_all loop, up to rotation.scalar().load(Relaxed)
\* for a None slot.
MatchAllLoadScalar ==
  \E t \in Threads :
    LET th == threads[t]
    IN /\ th.pc = "match_all_scalar"
       /\ threads' = [threads EXCEPT ![t] =
            IF th.result[th.slot].some
              THEN NextSlot(th)
              ELSE [th EXCEPT
                      !.pc = "match_all_clockwise",
                      !.loaded = cache[RotateFeatures(features)[th.slot]].scalar]]
       /\ UNCHANGED <<manager_vars, client_vars, conversion, hardware_vars>>

\* rotation.rotation_clockwise().load(Relaxed) and the assignment of the slot.
MatchAllLoadClockwise ==
  \E t \in Threads :
    LET th == threads[t]
        at == RotateFeatures(features)[th.slot]
    IN /\ th.pc = "match_all_clockwise"
       /\ threads' = [threads EXCEPT ![t] =
            NextSlot([th EXCEPT
                        !.result[th.slot] =
                           Some(<<th.loaded, cache[at].rotation_clockwise>>)])]
       /\ UNCHANGED <<manager_vars, client_vars, conversion, hardware_vars>>

\* A manager shared by the threads, none of which has called yet.
InitConcurrentRotation ==
  /\ features = ConcurrentRotators
  /\ \E s \in ConcurrentRotationSnapshots(features) :
       /\ cache = s.cache
       /\ sent_scalar = s.sent_scalar
       /\ sent_rotation = s.sent_rotation
       /\ pre = s
  /\ stop_commands = NewStopCommands(features)
  /\ call = NoCall
  /\ last = NoCall
  /\ threads = [t \in Threads |-> Idle]
  /\ device_actuator = None
  /\ message_sender = <<>>
  /\ client_call = NoCall
  /\ conversion = None
  /\ emitted = <<>>
  /\ toy_info = <<>>
  /\ watcher = <<>>
  /\ event_sender = <<>>

NextConcurrentRotation ==
  \/ RotationThreadCall
  \/ LoadSentRotation
  \/ LoadRotationScalar
  \/ LoadRotationClockwise
  \/ StoreRotationScalar
  \/ StoreRotationClockwise
  \/ StoreSentRotation
  \/ FinishRotation
  \/ MatchAllLoadScalar
  \/ MatchAllLoadClockwise

SpecConcurrentRotation == InitConcurrentRotation /\ [][NextConcurrentRotation]_vars

----------------------------------------------------------------------------
\* Concurrent rotation calls.

\* The (speed, direction) pairs the calls of the threads compute for slot i.
WrittenPairs(i) ==
  UNION { { <<StepValue(threads[t].msg.rotations[j].speed,
                        StepRange(FeatureAt("RotateCmd", i))),
              threads[t].msg.rotations[j].clockwise>> :
              j \in {k \in 1..Len(threads[t].msg.rotations) :
                       threads[t].msg.rotations[k].index + 1 = i} } :
          t \in Threads }

\* The pair cached for feature p.
CurrentPair(p) == <<cache[p].scalar, cache[p].rotation_clockwise>>

\* C30: when the concurrent update_rotation calls have all returned, the
\* cached (speed, direction) pair of every rotator is the pair of one
\* subcommand of one of the calls, or the pair cached before the calls: it
\* never holds the speed of one call with the direction of another.
C30_PairFromOneCall ==
  BothDone =>
    \A i \in RotateSlots :
      LET p == FeatureAt("RotateCmd", i)
      IN CurrentPair(p) \in WrittenPairs(i) \cup {CachedPair(p)}

----------------------------------------------------------------------------
\* The client's actuator handle (client/device_actuator.rs).
\*
\* A handle is its fields device_index, actuator_type and attributes.index();
\* an operation returns the messages it hands to message_sender and the
\* future it returns: Ok for the future of send_message_expect_ok, Err for
\* create_boxed_future_client_error.

\* enum ActuatorType, as carried by the device's scalar attributes.
ActuatorTypes ==
  {"Unknown", "Vibrate", "Rotate", "Oscillate", "Position", "Inflate",
   "Constrict"}

\* enum DeviceActuatorType
DeviceActuatorTypes ==
  ActuatorTypes \cup {"PositionWithDuration", "RotateWithDirection"}

\* impl From<ActuatorType> for DeviceActuatorType
FromActuatorType(value) == value

\* impl Into<ActuatorType> for DeviceActuatorType
IntoActuatorType(self_type) ==
  IF self_type \in {"PositionWithDuration", "RotateWithDirection"}
    THEN "Unknown"
    ELSE self_type

\* ButtplugDeviceActuator::new
NewActuator(device_index, actuator_type, attributes) ==
  [device_index |-> device_index, actuator_type |-> actuator_type,
   index |-> attributes.index]

from_scalarcmd_attributes(device_index, attributes) ==
  NewActuator(device_index, FromActuatorType(attributes.actuator_type),
              attributes)

from_rotatecmd_attributes(device_index, attributes) ==
  NewActuator(device_index, "RotateWithDirection", attributes)

from_linearcmd_attributes(device_index, attributes) ==
  NewActuator(device_index, "PositionWithDuration", attributes)

can_scalar(self) ==
  self.actuator_type \in
    {"Constrict", "Inflate", "Oscillate", "Position", "Rotate", "Vibrate"}

\* ScalarCmd::new(device_index, scalars), LinearCmd::new(device_index,
\* vectors) and RotateCmd::new(device_index, rotations) as the client builds
\* them.
ClientScalarCmd(device_index, scalars) ==
  [type |-> "ScalarCmd", device_index |-> device_index, scalars |-> scalars]
ClientRotateCmd(device_index, rotations) ==
  [type |-> "RotateCmd", device_index |-> device_index,
   rotations |-> rotations]

\* ButtplugDeviceError::UnhandledCommand(text); the formatted text is kept
\* as its pieces.
UnhandledCommand(text) == [error |-> "UnhandledCommand", text |-> text]

\* create_boxed_future_client_error(err): nothing is sent.
ClientError(err) == [sent |-> <<>>, ret |-> Err(err)]

\* self.message_sender.send_message_expect_ok(msg): the message is handed to
\* the sender.
SendMessageExpectOk(msg) == [sent |-> <<msg>>, ret |-> Ok(msg.type)]

\* f64::is_sign_negative and x > 1.0 on the values of the model.
IsSignNegative(v) == v[1] < 0
GreaterThanOne(v) == RatLess(<<1, 1>>, v)

\* ButtplugDeviceActuator::scalar: the range check is commented out in the
\* source (lines 107-114), the command is built and sent for every value.
scalar(self, v) ==
  SendMessageExpectOk(
    ClientScalarCmd(self.device_index,
      <<ScalarSubcommand(self.index, v, IntoActuatorType(self.actuator_type))>>))

\* ButtplugDeviceActuator::send_scalar_if_supported: the test is on
\* DeviceActuatorType::Vibrate, the parameter only reaches the error text.
send_scalar_if_supported(self, actuator_type, v) ==
  IF self.actuator_type # "Vibrate"
    THEN ClientError(UnhandledCommand(
           <<"Actuator does not support", actuator_type, "command">>))
    ELSE scalar(self, v)

vibrate(self, speed) == send_scalar_if_supported(self, "Vibrate", speed)
rotate(self, speed) == send_scalar_if_supported(self, "Rotate", speed)
oscillate(self, speed) == send_scalar_if_supported(self, "Oscillate", speed)
position(self, pos) == send_scalar_if_supported(self, "Position", pos)
inflate(self, level) == send_scalar_if_supported(self, "Inflate", level)
constrict(self, level) == send_scalar_if_supported(self, "Constrict", level)

\* position_with_duration sending on every actuator type.
position_with_duration_ungated(self, pos, duration) ==
  IF IsSignNegative(pos) \/ GreaterThanOne(pos)
    THEN ClientError(UnhandledCommand(
           <<"Value must be 0 <= x <= 1, but", pos, "was sent">>))
    ELSE SendMessageExpectOk(
           LinearCmd(self.device_index,
                     <<VectorSubcommand(self.index, duration, pos)>>))

\* ButtplugDeviceActuator::position_with_duration
position_with_duration(self, pos, duration) ==
  IF self.actuator_type # "PositionWithDuration"
    THEN ClientError(UnhandledCommand(
           <<"Actuator does not support Position With Duration command">>))
  ELSE IF IsSignNegative(pos) \/ GreaterThanOne(pos)
    THEN ClientError(UnhandledCommand(
           <<"Value must be 0 <= x <= 1, but", pos, "was sent">>))
  ELSE SendMessageExpectOk(
         LinearCmd(self.device_index,
                   <<VectorSubcommand(self.index, duration, pos)>>))

\* ButtplugDeviceActuator::rotate_with_direction
rotate_with_direction(self, speed, clockwise) ==
  IF self.actuator_type # "RotateWithDirection"
    THEN ClientError(UnhandledCommand(
           <<"Actuator does not support Position With Duration command">>))
  ELSE IF IsSignNegative(speed) \/ GreaterThanOne(speed)
    THEN ClientError(UnhandledCommand(
           <<"Value must be 0 <= x <= 1, but", speed, "was sent">>))
  ELSE SendMessageExpectOk(
         ClientRotateCmd(self.device_index,
                         <<RotationSubcommand(self.index, speed, clockwise)>>))

\* Values passed to the handle: -1/10, 0, 1/2, 1 and 3/2.
ClientValues == {<<-1, 10>>, Zero, <<1, 2>>, <<1, 1>>, <<3, 2>>}

\* Durations passed to position_with_duration, in milliseconds.
Durations == {0, 500}

\* The attributes a handle is made from: its index in its command family
\* and, for ScalarCmd, the actuator type.
ClientAttributes == [index : {0, 1}, actuator_type : ActuatorTypes]

\* The handles from_client_device_message_attributes makes for device 0.
Actuators ==
  UNION { { from_scalarcmd_attributes(0, a),
            from_rotatecmd_attributes(0, a),
            from_linearcmd_attributes(0, a) } : a \in ClientAttributes }

\* One operation called on the handle: what it sends and what it returns.
ClientCall(op, value, extra, outcome) ==
  /\ client_call = NoCall
  /\ client_call' = [op |-> op, value |-> value, extra |-> extra,
                     ret |-> outcome.ret]
  /\ message_sender' = message_sender \o outcome.sent
  /\ UNCHANGED <<manager_vars, threads, device_actuator, conversion, hardware_vars>>

CallScalar ==
  \E v \in ClientValues :
    ClientCall("scalar", v, None, scalar(device_actuator, v))

CallVibrate ==
  \E v \in ClientValues :
    ClientCall("vibrate", v, None, vibrate(device_actuator, v))

CallRotate ==
  \E v \in ClientValues :
    ClientCall("rotate", v, None, rotate(device_actuator, v))

CallOscillate ==
  \E v \in ClientValues :
    ClientCall("oscillate", v, None, oscillate(device_actuator, v))

CallPosition ==
  \E v \in ClientValues :
    ClientCall("position", v, None, position(device_actuator, v))

CallInflate ==
  \E v \in ClientValues :
    ClientCall("inflate", v, None, inflate(device_actuator, v))

CallConstrict ==
  \E v \in ClientValues :
    ClientCall("constrict", v, None, constrict(device_actuator, v))

CallPositionWithDuration ==
  \E v \in ClientValues, duration \in Durations :
    ClientCall("position_with_duration", v, Some(duration),
               position_with_duration(device_actuator, v, duration))

CallRotateWithDirection ==
  \E v \in ClientValues, clockwise \in BOOLEAN :
    ClientCall("rotate_with_direction", v, Some(clockwise),
               rotate_with_direction(device_actuator, v, clockwise))

\* The caller is done with the future and the sender has taken the message.
ClientReturn ==
  /\ client_call # NoCall
  /\ client_call' = NoCall
  /\ message_sender' = <<>>
  /\ UNCHANGED <<manager_vars, threads, device_actuator, conversion, hardware_vars>>

\* A handle of a connected device; the manager is not part of the client.
InitClient ==
  /\ device_actuator \in Actuators
  /\ message_sender = <<>>
  /\ client_call = NoCall
  /\ features = <<>>
  /\ cache = NewCache(features)
  /\ sent_scalar = FALSE
  /\ sent_rotation = FALSE
  /\ stop_commands = NewStopCommands(features)
  /\ call = NoCall
  /\ pre = NewSnapshot(features)
  /\ last = NoCall
  /\ threads = <<>>
  /\ conversion = None
  /\ emitted = <<>>
  /\ toy_info = <<>>
  /\ watcher = <<>>
  /\ event_sender = <<>>

NextClient ==
  \/ CallScalar
  \/ CallVibrate
  \/ CallRotate
  \/ CallOscillate
  \/ CallPosition
  \/ CallInflate
  \/ CallConstrict
  \/ CallPositionWithDuration
  \/ CallRotateWithDirection
  \/ ClientReturn

SpecClient == InitClient /\ [][NextClient]_vars

----------------------------------------------------------------------------
\* The client handle.

ClientCalled == client_call # NoCall

\* A value outside [0, 1].
OutOfRange(v) == v[1] < 0 \/ v[1] > v[2]

\* The convenience aliases and the actuator type each is named after.
AliasType ==
  [vibrate |-> "Vibrate", rotate |-> "Rotate", oscillate |-> "Oscillate",
   position |-> "Position", inflate |-> "Inflate", constrict |-> "Constrict"]

NothingSent == message_sender = <<>>

Unhandled == ~client_call.ret.ok /\ client_call.ret.err.error = "UnhandledCommand"

\* C16: every scalar-taking operation of the handle called with a value that
\* is negative or above 1 returns an error and sends no message, and
\* position_with_duration(0.5, 500) on a PositionWithDuration actuator sends
\* exactly one LinearCmd.
C16_OutOfRangeRejected ==
  /\ (ClientCalled /\ OutOfRange(client_call.value)) =>
       ~client_call.ret.ok /\ NothingSent
  /\ ( /\ ClientCalled
       /\ client_call.op = "position_with_duration"
       /\ device_actuator.actuator_type = "PositionWithDuration"
       /\ client_call.value = <<1, 2>>
       /\ client_call.extra = Some(500) ) =>
       message_sender =
         <<LinearCmd(device_actuator.device_index,
             <<VectorSubcommand(device_actuator.index, 500, <<1, 2>>)>>)>>

\* C17: the alias named after T, called with a value in [0, 1] on an actuator
\* of type T, sends exactly one ScalarCmd; an alias called on an actuator of
\* another type returns an unhandled-command error and sends nothing.
C17_AliasDispatch ==
  (ClientCalled /\ client_call.op \in DOMAIN AliasType) =>
    IF AliasType[client_call.op] = device_actuator.actuator_type
      THEN ~OutOfRange(client_call.value) =>
             /\ client_call.ret.ok
             /\ Len(message_sender) = 1
             /\ message_sender[1].type = "ScalarCmd"
      ELSE Unhandled /\ NothingSent

\* The operations gated on one actuator type, with that type.
Gated ==
  [position_with_duration |-> "PositionWithDuration",
   rotate_with_direction |-> "RotateWithDirection"]

\* C18: position_with_duration sends only on a PositionWithDuration actuator
\* and rotate_with_direction only on a RotateWithDirection actuator; on any
\* other actuator type the call returns the unsupported-command error and
\* sends nothing, whatever the value.
C18_CapabilityGating ==
  (ClientCalled /\ client_call.op \in DOMAIN Gated) =>
    /\ ~NothingSent => device_actuator.actuator_type = Gated[client_call.op]
    /\ device_actuator.actuator_type # Gated[client_call.op] =>
         /\ NothingSent
         /\ client_call.ret =
              Err(UnhandledCommand(
                <<"Actuator does not support Position With Duration command">>))

\* position_with_duration(1.5, 500) on a Vibrate actuator: the type is
\* refused before the value is looked at.
C18_Witness ==
  /\ ClientCalled
  /\ client_call.op = "position_with_duration"
  /\ device_actuator.actuator_type = "Vibrate"
  /\ client_call.value = <<3, 2>>
  /\ client_call.extra = Some(500)
  /\ NothingSent
  /\ client_call.ret =
       Err(UnhandledCommand(
         <<"Actuator does not support Position With Duration command">>))

----------------------------------------------------------------------------
\* Conversion of server messages to the message set of a spec version
\* (core/message/mod.rs, spec_v*/mod.rs, device_added.rs,
\* device_message_info.rs).
\*
\* A conversion either returns a value or panics.

Returned(value) == [panic |-> FALSE, ret |-> value]

\* unimplemented!(...)
Unimplemented == [panic |-> TRUE]

\* enum ButtplugServerMessage: the kinds of message a server sends.
ServerMessageKinds ==
  {"Ok", "Error", "Test", "Log", "ServerInfo", "DeviceList", "DeviceAdded",
   "DeviceRemoved", "ScanningFinished", "RawReading", "SensorReading",
   "BatteryLevelReading", "RSSILevelReading"}

SpecVersions == {"V0", "V1", "V2", "V3"}

\* The variants of enum ButtplugSpecV0ServerMessage .. V3ServerMessage.
VariantsV0 ==
  {"Ok", "Error", "Log", "ServerInfo", "DeviceList", "DeviceAdded",
   "DeviceRemoved", "ScanningFinished"}
VariantsV1 ==
  {"Ok", "Error", "Log", "ServerInfo", "DeviceList", "DeviceAdded",
   "DeviceRemoved", "ScanningFinished"}
VariantsV2 ==
  {"Ok", "Error", "ServerInfo", "DeviceList", "DeviceAdded",
   "DeviceRemoved", "ScanningFinished", "RawReading",
   "BatteryLevelReading", "RSSILevelReading"}
VariantsV3 ==
  {"Ok", "Error", "ServerInfo", "DeviceList", "DeviceAdded",
   "DeviceRemoved", "ScanningFinished", "RawReading", "SensorReading"}

Variants ==
  [V0 |-> VariantsV0, V1 |-> VariantsV1, V2 |-> VariantsV2, V3 |-> VariantsV3]

\* The arms of the match of each TryFrom<ButtplugServerMessage>; every other
\* kind falls to the `_` arm.
MatchArmsV0 ==
  {"Ok", "Error", "Log", "ServerInfo", "DeviceList", "DeviceAdded",
   "DeviceRemoved", "ScanningFinished"}
MatchArmsV1 ==
  {"Ok", "Error", "Log", "ServerInfo", "DeviceList", "DeviceAdded",
   "DeviceRemoved", "ScanningFinished"}
MatchArmsV2 ==
  {"Ok", "Error", "ServerInfo", "DeviceList", "DeviceAdded",
   "DeviceRemoved", "ScanningFinished"}
MatchArmsV3 ==
  {"Ok", "Error", "ServerInfo", "DeviceList", "DeviceAdded",
   "DeviceRemoved", "ScanningFinished"}

MatchArms ==
  [V0 |-> MatchArmsV0, V1 |-> MatchArmsV1, V2 |-> MatchArmsV2,
   V3 |-> MatchArmsV3]

\* The name of the target type in the VersionError of each conversion.
TargetName ==
  [V0 |-> "ButtplugSpecV0ServerMessage", V1 |-> "ButtplugSpecV1ServerMessage",
   V2 |-> "ButtplugSpecV2ServerMessage", V3 |-> "ButtplugSpecV3ServerMessage"]

\* ButtplugMessageError::VersionError(source, format!("{:?}", msg), target)
VersionError(source, msg, target) ==
  [error |-> "VersionError", source |-> source, msg |-> msg,
   target |-> target]

\* impl From<DeviceAdded> for DeviceMessageInfo
DeviceMessageInfo_from(device_added) ==
  [index |-> device_added.index, name |-> device_added.name,
   display_name |-> device_added.display_name,
   message_timing_gap |-> device_added.message_timing_gap,
   actuators |-> device_added.actuators, sensors |-> device_added.sensors,
   raw |-> device_added.raw]

\* impl From<DeviceMessageInfo> for DeviceMessageInfoV3
DeviceMessageInfoV3_from(device_info) == Unimplemented

\* impl From<DeviceMessageInfoV3> for DeviceMessageInfoV2
DeviceMessageInfoV2_from(device_message_info) ==
  [device_index |-> device_message_info.device_index,
   device_name |-> device_message_info.device_name,
   device_messages |-> <<"V2", device_message_info.device_messages>>]

\* impl From<DeviceMessageInfoV2> for DeviceMessageInfoV1
DeviceMessageInfoV1_from(device_message_info) ==
  [device_index |-> device_message_info.device_index,
   device_name |-> device_message_info.device_name,
   device_messages |-> <<"V1", device_message_info.device_messages>>]

\* A value of enum ButtplugDeviceMessageType
ButtplugDeviceMessageType(variant) ==
  [enum |-> "ButtplugDeviceMessageType", variant |-> variant]

\* Display of ButtplugDeviceMessageType, for the types a V0 device message
\* list holds: the variant's name, as the bytes of the string.
to_string(self) ==
  CASE self.variant = "StopDeviceCmd" ->
         <<83, 116, 111, 112, 68, 101, 118, 105, 99, 101, 67,
           109, 100>>
    [] self.variant = "SingleMotorVibrateCmd" ->
         <<83, 105, 110, 103, 108, 101, 77, 111, 116, 111,
           114, 86, 105, 98, 114, 97, 116, 101, 67, 109, 100>>
    [] self.variant = "FleshlightLaunchFW12Cmd" ->
         <<70, 108, 101, 115, 104, 108, 105, 103, 104, 116,
           76, 97, 117, 110, 99, 104, 70, 87, 49, 50, 67, 109,
           100>>
    [] self.variant = "VorzeA10CycloneCmd" ->
         <<86, 111, 114, 122, 101, 65, 49, 48, 67, 121, 99,
           108, 111, 110, 101, 67, 109, 100>>

\* String::cmp: byte by byte, a proper prefix being the lesser.
RECURSIVE StringCmp(_, _)
StringCmp(a, b) ==
  IF a = <<>> /\ b = <<>> THEN "Equal"
  ELSE IF a = <<>> THEN "Less"
  ELSE IF b = <<>> THEN "Greater"
  ELSE IF Head(a) < Head(b) THEN "Less"
  ELSE IF Head(a) > Head(b) THEN "Greater"
  ELSE StringCmp(Tail(a), Tail(b))

\* impl Ord for ButtplugDeviceMessageType
DeviceMessageType_cmp(self, other) ==
  StringCmp(to_string(self), to_string(other))

\* Vec::sort: the elements in ascending order, equal ones in their order.
RECURSIVE SortInsert(_, _)
SortInsert(sorted, x) ==
  IF sorted = <<>> THEN <<x>>
  ELSE IF DeviceMessageType_cmp(x, Head(sorted)) = "Less"
    THEN <<x>> \o sorted
  ELSE <<Head(sorted)>> \o SortInsert(Tail(sorted), x)

RECURSIVE Sort(_)
Sort(v) ==
  IF v = <<>> THEN <<>>
  ELSE SortInsert(Sort(SubSeq(v, 1, Len(v) - 1)), v[Len(v)])

\* The pushes of the conversion: StopDeviceCmd, then the type of each
\* attribute that is_some().
PushedDeviceMessages(attributes) ==
  <<ButtplugDeviceMessageType("StopDeviceCmd")>>
  \o (IF attributes.single_motor_vibrate_cmd.some
        THEN <<ButtplugDeviceMessageType("SingleMotorVibrateCmd")>>
        ELSE <<>>)
  \o (IF attributes.fleshlight_launch_fw12_cmd.some
        THEN <<ButtplugDeviceMessageType("FleshlightLaunchFW12Cmd")>>
        ELSE <<>>)
  \o (IF attributes.vorze_a10_cyclone_cmd.some
        THEN <<ButtplugDeviceMessageType("VorzeA10CycloneCmd")>>
        ELSE <<>>)

\* The conversion without its device_messages.sort().
DeviceMessageInfoV0_from_unsorted(device_message_info) ==
  [device_index |-> device_message_info.device_index,
   device_name |-> device_message_info.device_name,
   device_messages |->
     PushedDeviceMessages(device_message_info.device_messages)]

\* impl From<DeviceMessageInfoV1> for DeviceMessageInfoV0
DeviceMessageInfoV0_from(device_message_info) ==
  [device_index |-> device_message_info.device_index,
   device_name |-> device_message_info.device_name,
   device_messages |->
     Sort(PushedDeviceMessages(device_message_info.device_messages))]

\* impl From<DeviceAdded> for DeviceAddedV3
DeviceAddedV3_from(msg) ==
  LET id == msg.id
      dmi == DeviceMessageInfo_from(msg)
      dmiv3 == DeviceMessageInfoV3_from(dmi)
  IN IF dmiv3.panic THEN dmiv3
     ELSE Returned(
            [kind |-> "DeviceAdded", id |-> id,
             device_index |-> dmiv3.ret.device_index,
             device_display_name |-> dmiv3.ret.device_display_name,
             device_name |-> dmiv3.ret.device_name,
             device_messages |-> dmiv3.ret.device_messages,
             device_message_timing_gap |->
               dmiv3.ret.device_message_timing_gap])

\* impl From<DeviceAdded> for DeviceAddedV2
DeviceAddedV2_from(msg) ==
  LET id == msg.id
      dmi == DeviceMessageInfo_from(msg)
      dmiv3 == DeviceMessageInfoV3_from(dmi)
  IN IF dmiv3.panic THEN dmiv3
     ELSE LET dmiv2 == DeviceMessageInfoV2_from(dmiv3.ret)
          IN Returned(
               [kind |-> "DeviceAdded", id |-> id,
                device_index |-> dmiv2.device_index,
                device_name |-> dmiv2.device_name,
                device_messages |-> dmiv2.device_messages])

\* impl From<DeviceAdded> for DeviceAddedV1
DeviceAddedV1_from(msg) ==
  LET id == msg.id
      dmi == DeviceMessageInfoV3_from(DeviceMessageInfo_from(msg))
  IN IF dmi.panic THEN dmi
     ELSE LET dmiv2 == DeviceMessageInfoV2_from(dmi.ret)
              dmiv1 == DeviceMessageInfoV1_from(dmiv2)
          IN Returned(
               [kind |-> "DeviceAdded", id |-> id,
                device_index |-> dmiv1.device_index,
                device_name |-> dmiv1.device_name,
                device_messages |-> dmiv1.device_messages])

\* impl From<DeviceAdded> for DeviceAddedV0
DeviceAddedV0_from(msg) ==
  LET id == msg.id
      dmi == DeviceMessageInfoV3_from(DeviceMessageInfo_from(msg))
  IN IF dmi.panic THEN dmi
     ELSE LET dmiv2 == DeviceMessageInfoV2_from(dmi.ret)
              dmiv1 == DeviceMessageInfoV1_from(dmiv2)
              dmiv0 == DeviceMessageInfoV0_from(dmiv1)
          IN Returned(
               [kind |-> "DeviceAdded", id |-> id,
                device_index |-> dmiv0.device_index,
                device_name |-> dmiv0.device_name,
                device_messages |-> dmiv0.device_messages])

\* msg.into() of a DeviceAdded arm: the From impl of the target's DeviceAdded.
DeviceAddedInto(msg, version) ==
  CASE version = "V3" -> DeviceAddedV3_from(msg)
    [] version = "V2" -> DeviceAddedV2_from(msg)
    [] version = "V1" -> DeviceAddedV1_from(msg)
    [] version = "V0" -> DeviceAddedV0_from(msg)

\* msg.into() of the Error, ServerInfo and DeviceList arms: the message of
\* the target version with the same id.
MessageInto(msg, version) ==
  Returned([kind |-> msg.kind, id |-> msg.id, version |-> version])

\* impl TryFrom<ButtplugServerMessage> for ButtplugSpecV{0,1,2,3}ServerMessage
try_from(msg, version) ==
  IF msg.kind \notin MatchArms[version]
    THEN Returned(Err(VersionError("ButtplugServerMessage", msg,
                                   TargetName[version])))
    ELSE
      LET inner == CASE msg.kind = "DeviceAdded" ->
                          DeviceAddedInto(msg, version)
                     [] msg.kind \in {"Error", "ServerInfo", "DeviceList"} ->
                          MessageInto(msg, version)
                     [] OTHER -> Returned(msg)
      IN IF inner.panic THEN inner ELSE Returned(Ok(inner.ret))

\* Message ids.
MessageIds == {0, 1}

\* The DeviceAdded messages converted: two devices, with and without a
\* display name, a timing gap and an actuator list.
DeviceAddedMessages ==
  [kind : {"DeviceAdded"}, id : MessageIds, index : {0, 1},
   name : {"Device A", "Device B"},
   display_name : {None, Some("Toy")},
   message_timing_gap : {None, Some(50)},
   actuators : {None, Some(<<>>),
                Some(<<[descriptor |-> "Motor", actuator_type |-> "Vibrate",
                        step_range |-> <<0, 20>>]>>)},
   sensors : {None}, raw : {None}]

ServerMessages ==
  [kind : ServerMessageKinds \ {"DeviceAdded"}, id : MessageIds]
    \cup DeviceAddedMessages

\* A conversion of the message at hand.
Convert(op, version, outcome) ==
  /\ conversion.op = "none"
  /\ conversion' = [op |-> op, msg |-> conversion.msg, version |-> version,
                    outcome |-> outcome]
  /\ UNCHANGED <<manager_vars, threads, client_vars, hardware_vars>>

TryFromV0 ==
  /\ conversion.op = "none"
  /\ Convert("try_from", "V0", try_from(conversion.msg, "V0"))

TryFromV1 ==
  /\ conversion.op = "none"
  /\ Convert("try_from", "V1", try_from(conversion.msg, "V1"))

TryFromV2 ==
  /\ conversion.op = "none"
  /\ Convert("try_from", "V2", try_from(conversion.msg, "V2"))

TryFromV3 ==
  /\ conversion.op = "none"
  /\ Convert("try_from", "V3", try_from(conversion.msg, "V3"))

DeviceAddedIntoV0 ==
  /\ conversion.msg.kind = "DeviceAdded"
  /\ Convert("from", "V0", DeviceAddedV0_from(conversion.msg))

DeviceAddedIntoV1 ==
  /\ conversion.msg.kind = "DeviceAdded"
  /\ Convert("from", "V1", DeviceAddedV1_from(conversion.msg))

DeviceAddedIntoV2 ==
  /\ conversion.msg.kind = "DeviceAdded"
  /\ Convert("from", "V2", DeviceAddedV2_from(conversion.msg))

DeviceAddedIntoV3 ==
  /\ conversion.msg.kind = "DeviceAdded"
  /\ Convert("from", "V3", DeviceAddedV3_from(conversion.msg))

\* A server message about to be converted.
InitConvert ==
  /\ \E msg \in ServerMessages : conversion = [op |-> "none", msg |-> msg]
  /\ device_actuator = None
  /\ message_sender = <<>>
  /\ client_call = NoCall
  /\ features = <<>>
  /\ cache = NewCache(features)
  /\ sent_scalar = FALSE
  /\ sent_rotation = FALSE
  /\ stop_commands = NewStopCommands(features)
  /\ call = NoCall
  /\ pre = NewSnapshot(features)
  /\ last = NoCall
  /\ threads = <<>>
  /\ emitted = <<>>
  /\ toy_info = <<>>
  /\ watcher = <<>>
  /\ event_sender = <<>>

NextConvert ==
  \/ TryFromV0
  \/ TryFromV1
  \/ TryFromV2
  \/ TryFromV3
  \/ DeviceAddedIntoV0
  \/ DeviceAddedIntoV1
  \/ DeviceAddedIntoV2
  \/ DeviceAddedIntoV3

SpecConvert == InitConvert /\ [][NextConvert]_vars

----------------------------------------------------------------------------
\* Conversions.

Converted == conversion.op # "none"

\* C19: converting a server message to the message set of V0..V3 succeeds,
\* with the same kind and the same id, exactly when the target set has a
\* variant of that kind, and fails otherwise with a VersionError naming the
\* source type and the target type.
C19_ConvertsExactlyTheVariants ==
  (Converted /\ conversion.op = "try_from") =>
    /\ ~conversion.outcome.panic
    /\ IF conversion.msg.kind \in Variants[conversion.version]
         THEN /\ conversion.outcome.ret.ok
              /\ conversion.outcome.ret.val.kind = conversion.msg.kind
              /\ conversion.outcome.ret.val.id = conversion.msg.id
         ELSE /\ ~conversion.outcome.ret.ok
              /\ conversion.outcome.ret.err.error = "VersionError"
              /\ conversion.outcome.ret.err.source = "ButtplugServerMessage"
              /\ conversion.outcome.ret.err.target =
                   TargetName[conversion.version]

\* C20: converting a DeviceAdded to DeviceAddedV3, V2, V1 or V0 never
\* panics and yields a message with the same id, device index and name.
C20_DowngradeNeverPanics ==
  (Converted /\ conversion.op = "from") =>
    /\ ~conversion.outcome.panic
    /\ conversion.outcome.ret.id = conversion.msg.id
    /\ conversion.outcome.ret.device_index = conversion.msg.index
    /\ conversion.outcome.ret.device_name = conversion.msg.name

----------------------------------------------------------------------------
\* Message validation, the actuator command-type mapping and the battery
\* reading (core/message/mod.rs, device_added.rs, battery_level_cmd.rs,
\* client/device_sensor.rs, lovense_connect_service_hardware.rs).

\* ()
Unit == <<>>

\* ButtplugMessageError::InvalidMessageContents(text)
InvalidMessageContents(text) ==
  [error |-> "InvalidMessageContents", text |-> text]

\* ButtplugMessageValidator::is_system_id
is_system_id(id) ==
  IF id = 0
    THEN Ok(Unit)
    ELSE Err(InvalidMessageContents(
               "Message should have id of 0, as it is a system message."))

\* is_not_system_id letting every id pass.
is_not_system_id_unchecked(id) == Ok(Unit)

\* ButtplugMessageValidator::is_not_system_id
is_not_system_id(id) ==
  IF id = 0
    THEN Err(InvalidMessageContents(
               "Message should not have 0 for an Id. Id of 0 is reserved for system messages."))
    ELSE Ok(Unit)

\* DeviceAdded::new; finalize() is empty.
DeviceAdded_new(index, name) ==
  [kind |-> "DeviceAdded", version |-> "V4", id |-> 0, index |-> index,
   name |-> name]

\* DeviceAddedV3::new; finalize() finalizes device_messages only.
DeviceAddedV3_new(device_index, device_name) ==
  [kind |-> "DeviceAdded", version |-> "V3", id |-> 0,
   device_index |-> device_index, device_name |-> device_name]

\* BatteryLevelCmdV2::new
BatteryLevelCmdV2_new(device_index) ==
  [kind |-> "BatteryLevelCmd", version |-> "V2", id |-> 1,
   device_index |-> device_index]

\* The is_valid of DeviceAdded, DeviceAddedV3, V2, V1, V0 and of
\* BatteryLevelCmdV2.
is_valid(msg) ==
  CASE msg.kind = "DeviceAdded" /\ msg.version = "V4" -> is_system_id(msg.id)
    [] msg.kind = "DeviceAdded" /\ msg.version = "V3" -> is_system_id(msg.id)
    [] msg.kind = "DeviceAdded" /\ msg.version = "V2" -> is_system_id(msg.id)
    [] msg.kind = "DeviceAdded" /\ msg.version = "V1" -> is_system_id(msg.id)
    [] msg.kind = "DeviceAdded" /\ msg.version = "V0" -> is_system_id(msg.id)
    [] msg.kind = "BatteryLevelCmd" -> is_not_system_id(msg.id)

\* u32 ids: 0, the first client ids and a large id.
ValidatedIds == {0, 1, 2, 2^30}

\* The messages that reach is_valid after deserialization, the id being
\* whatever the peer wrote.
DeserializedMessages ==
  [kind : {"DeviceAdded"}, version : {"V4"}, id : ValidatedIds,
   index : {0, 1}, name : {"Device A"}]
    \cup
  [kind : {"DeviceAdded"}, version : {"V0", "V1", "V2", "V3"},
   id : ValidatedIds, device_index : {0, 1}, device_name : {"Device A"}]
    \cup
  [kind : {"BatteryLevelCmd"}, version : {"V2"}, id : ValidatedIds,
   device_index : {0, 1}]

\* enum ButtplugDeviceMessageType
DeviceMessageTypeVariants ==
  {"VibrateCmd", "LinearCmd", "RotateCmd", "StopDeviceCmd", "RawWriteCmd",
   "RawReadCmd", "RawSubscribeCmd", "RawUnsubscribeCmd", "BatteryLevelCmd",
   "RSSILevelCmd", "ScalarCmd", "SensorReadCmd", "SensorSubscribeCmd",
   "SensorUnsubscribeCmd", "SingleMotorVibrateCmd", "FleshlightLaunchFW12Cmd",
   "LovenseCmd", "KiirooCmd", "VorzeA10CycloneCmd"}

\* enum ButtplugActuatorFeatureMessageType
ActuatorFeatureMessageTypeVariants == {"ScalarCmd", "RotateCmd", "LinearCmd"}

ButtplugActuatorFeatureMessageType(variant) ==
  [enum |-> "ButtplugActuatorFeatureMessageType", variant |-> variant]

\* The From impl with the arms of RotateCmd and LinearCmd exchanged.
DeviceMessageType_from_exchanged(value) ==
  CASE value = ButtplugActuatorFeatureMessageType("LinearCmd") ->
         ButtplugDeviceMessageType("RotateCmd")
    [] value = ButtplugActuatorFeatureMessageType("RotateCmd") ->
         ButtplugDeviceMessageType("LinearCmd")
    [] value = ButtplugActuatorFeatureMessageType("ScalarCmd") ->
         ButtplugDeviceMessageType("ScalarCmd")

\* impl From<ButtplugActuatorFeatureMessageType> for ButtplugDeviceMessageType
DeviceMessageType_from(value) ==
  CASE value = ButtplugActuatorFeatureMessageType("LinearCmd") ->
         ButtplugDeviceMessageType("LinearCmd")
    [] value = ButtplugActuatorFeatureMessageType("RotateCmd") ->
         ButtplugDeviceMessageType("RotateCmd")
    [] value = ButtplugActuatorFeatureMessageType("ScalarCmd") ->
         ButtplugDeviceMessageType("ScalarCmd")

\* impl TryFrom<ButtplugDeviceMessageType> for
\* ButtplugActuatorFeatureMessageType
ActuatorFeatureMessageType_try_from(value) ==
  CASE value = ButtplugDeviceMessageType("LinearCmd") ->
         Ok(ButtplugActuatorFeatureMessageType("LinearCmd"))
    [] value = ButtplugDeviceMessageType("RotateCmd") ->
         Ok(ButtplugActuatorFeatureMessageType("RotateCmd"))
    [] value = ButtplugDeviceMessageType("ScalarCmd") ->
         Ok(ButtplugActuatorFeatureMessageType("ScalarCmd"))
    [] OTHER -> Err(Unit)

\* x.clamp(min, max)
Clamp(x, min, max) == IF x < min THEN min ELSE IF x > max THEN max ELSE x

\* x as u8
AsU8(x) == x % 2^8

\* read_value reporting the battery field as it is.
read_value_unclamped(battery) ==
  Ok([kind |-> "RawReading", device_index |-> 0, endpoint |-> "Rx",
      data |-> <<AsU8(battery)>>])

\* LovenseServiceHardware::read_value
read_value(battery) ==
  Ok([kind |-> "RawReading", device_index |-> 0, endpoint |-> "Rx",
      data |-> <<AsU8(Clamp(battery, 0, 100))>>])

\* The SensorReading the server answers a battery SensorReadCmd with: the
\* bytes read from the hardware, as integers.
SensorReading(raw_reading) ==
  [kind |-> "SensorReading", sensor_type |-> "Battery",
   data |-> [i \in 1..Len(raw_reading.data) |-> raw_reading.data[i]]]

\* BatterySensor::battery_level after the reply has arrived:
\* data[0] as f64 / 100.0, as an exact fraction.
battery_level(data) == Ok(<<data[1], 100>>)

\* The battery field of the toy info: unknown (-1), empty, in range, full
\* and beyond.
BatteryValues == {-1, 0, 1, 55, 99, 100, 101, 255, 256, 300}

NoMessage == [op |-> "none"]

\* DeviceAdded::new(index, name, ..)
NewDeviceAdded ==
  /\ conversion = NoMessage
  /\ \E index \in {0, 1}, name \in {"Device A", "Device B"} :
       conversion' = [op |-> "new", msg |-> DeviceAdded_new(index, name)]
  /\ UNCHANGED <<manager_vars, threads, client_vars, hardware_vars>>

\* DeviceAddedV3::new(device_index, device_name, ..)
NewDeviceAddedV3 ==
  /\ conversion = NoMessage
  /\ \E index \in {0, 1}, name \in {"Device A", "Device B"} :
       conversion' = [op |-> "new", msg |-> DeviceAddedV3_new(index, name)]
  /\ UNCHANGED <<manager_vars, threads, client_vars, hardware_vars>>

\* BatteryLevelCmdV2::new(device_index)
NewBatteryLevelCmdV2 ==
  /\ conversion = NoMessage
  /\ \E index \in {0, 1} :
       conversion' = [op |-> "new", msg |-> BatteryLevelCmdV2_new(index)]
  /\ UNCHANGED <<manager_vars, threads, client_vars, hardware_vars>>

\* A message arrives from the peer.
Deserialize ==
  /\ conversion = NoMessage
  /\ \E msg \in DeserializedMessages :
       conversion' = [op |-> "deserialize", msg |-> msg]
  /\ UNCHANGED <<manager_vars, threads, client_vars, hardware_vars>>

\* msg.is_valid()
IsValid ==
  /\ conversion.op \in {"new", "deserialize"}
  /\ conversion' = [op |-> "is_valid", origin |-> conversion.op,
                    msg |-> conversion.msg, ret |-> is_valid(conversion.msg)]
  /\ UNCHANGED <<manager_vars, threads, client_vars, hardware_vars>>

\* is_system_id(id) and is_not_system_id(id) on the same id.
CheckId ==
  /\ conversion = NoMessage
  /\ \E id \in ValidatedIds :
       conversion' = [op |-> "check_id", id |-> id,
                      system |-> is_system_id(id),
                      not_system |-> is_not_system_id(id)]
  /\ UNCHANGED <<manager_vars, threads, client_vars, hardware_vars>>

\* ButtplugDeviceMessageType::from(value)
ActuatorTypeInto ==
  /\ conversion = NoMessage
  /\ \E variant \in ActuatorFeatureMessageTypeVariants :
       LET value == ButtplugActuatorFeatureMessageType(variant)
       IN conversion' = [op |-> "from", value |-> value,
                         ret |-> DeviceMessageType_from(value)]
  /\ UNCHANGED <<manager_vars, threads, client_vars, hardware_vars>>

\* ButtplugActuatorFeatureMessageType::try_from(value) on the device
\* message type just obtained.
ActuatorTypeBack ==
  /\ conversion.op = "from"
  /\ conversion' = [op |-> "try_from", origin |-> Some(conversion.value),
                    value |-> conversion.ret,
                    ret |-> ActuatorFeatureMessageType_try_from(conversion.ret)]
  /\ UNCHANGED <<manager_vars, threads, client_vars, hardware_vars>>

\* ButtplugActuatorFeatureMessageType::try_from(value) on a device message
\* type of a feature description.
ActuatorTypeTryFrom ==
  /\ conversion = NoMessage
  /\ \E variant \in DeviceMessageTypeVariants :
       LET value == ButtplugDeviceMessageType(variant)
       IN conversion' = [op |-> "try_from", origin |-> None, value |-> value,
                         ret |-> ActuatorFeatureMessageType_try_from(value)]
  /\ UNCHANGED <<manager_vars, threads, client_vars, hardware_vars>>

\* The server reads the battery of a Lovense Connect toy and answers the
\* client's SensorReadCmd.
ReadValue ==
  /\ conversion = NoMessage
  /\ \E battery \in BatteryValues :
       conversion' = [op |-> "read_value", battery |-> battery,
                      reply |-> SensorReading(read_value(battery).val)]
  /\ UNCHANGED <<manager_vars, threads, client_vars, hardware_vars>>

\* The client's battery_level() receives the reply.
BatteryLevel ==
  /\ conversion.op = "read_value"
  /\ conversion' = [op |-> "battery_level", battery |-> conversion.battery,
                    reply |-> conversion.reply,
                    ret |-> battery_level(conversion.reply.data)]
  /\ UNCHANGED <<manager_vars, threads, client_vars, hardware_vars>>

\* NullDeviceMessageAttributesV1 and GenericDeviceMessageAttributesV1
NullAttributes == [attributes |-> "Null"]
GenericAttributes(feature_count) ==
  [attributes |-> "Generic", feature_count |-> feature_count]

\* ClientDeviceMessageAttributesV1: the attributes the conversion reads, and
\* vibrate_cmd for one it does not.
DeviceMessageAttributesV1 ==
  [vibrate_cmd : {None, Some(GenericAttributes(2))},
   single_motor_vibrate_cmd : {None, Some(NullAttributes)},
   fleshlight_launch_fw12_cmd : {None, Some(NullAttributes)},
   vorze_a10_cyclone_cmd : {None, Some(NullAttributes)}]

\* The DeviceMessageInfoV1 values converted in the model.
DeviceMessageInfosV1 ==
  [device_index : {0, 1}, device_name : {"Device A", "Device B"},
   device_messages : DeviceMessageAttributesV1]

\* DeviceMessageInfoV0::from(device_message_info)
DeviceMessageInfoV1Into ==
  /\ conversion = NoMessage
  /\ \E device_message_info \in DeviceMessageInfosV1 :
       conversion' = [op |-> "from_v1", msg |-> device_message_info,
                      ret |-> DeviceMessageInfoV0_from(device_message_info)]
  /\ UNCHANGED <<manager_vars, threads, client_vars, hardware_vars>>

InitMessages ==
  /\ conversion = NoMessage
  /\ device_actuator = None
  /\ message_sender = <<>>
  /\ client_call = NoCall
  /\ features = <<>>
  /\ cache = NewCache(features)
  /\ sent_scalar = FALSE
  /\ sent_rotation = FALSE
  /\ stop_commands = NewStopCommands(features)
  /\ call = NoCall
  /\ pre = NewSnapshot(features)
  /\ last = NoCall
  /\ threads = <<>>
  /\ emitted = <<>>
  /\ toy_info = <<>>
  /\ watcher = <<>>
  /\ event_sender = <<>>

NextMessages ==
  \/ NewDeviceAdded
  \/ NewDeviceAddedV3
  \/ NewBatteryLevelCmdV2
  \/ Deserialize
  \/ IsValid
  \/ CheckId
  \/ ActuatorTypeInto
  \/ ActuatorTypeBack
  \/ ActuatorTypeTryFrom
  \/ ReadValue
  \/ BatteryLevel
  \/ DeviceMessageInfoV1Into

SpecMessages == InitMessages /\ [][NextMessages]_vars

----------------------------------------------------------------------------
\* C21: a DeviceAdded message of any version is valid exactly when its id
\* is 0 and a BatteryLevelCmd exactly when its id is not 0; for every id
\* exactly one of is_system_id and is_not_system_id succeeds; a message just
\* built by DeviceAdded::new, DeviceAddedV3::new or BatteryLevelCmdV2::new is
\* valid.
C21_IdValidation ==
  /\ conversion.op = "is_valid" =>
       /\ conversion.msg.kind = "DeviceAdded" =>
            (conversion.ret.ok <=> conversion.msg.id = 0)
       /\ conversion.msg.kind = "BatteryLevelCmd" =>
            (conversion.ret.ok <=> conversion.msg.id # 0)
       /\ conversion.origin = "new" => conversion.ret.ok
  /\ conversion.op = "check_id" =>
       (conversion.system.ok <=> ~conversion.not_system.ok)

C21_Witness ==
  /\ conversion.op = "is_valid"
  /\ conversion.origin = "new"
  /\ conversion.msg.kind = "BatteryLevelCmd"
  /\ conversion.msg.id = 1
  /\ conversion.ret = Ok(Unit)

\* C22: an actuator feature message type converted to a device message type
\* and back is the value converted, and the conversion of every device
\* message type other than ScalarCmd, RotateCmd and LinearCmd to an actuator
\* feature message type fails.
C22_ActuatorTypeRoundTrip ==
  conversion.op = "try_from" =>
    /\ conversion.origin.some => conversion.ret = Ok(conversion.origin.val)
    /\ conversion.value.variant \notin ActuatorFeatureMessageTypeVariants =>
         conversion.ret = Err(Unit)

C22_Witness ==
  /\ conversion.op = "try_from"
  /\ conversion.origin = Some(ButtplugActuatorFeatureMessageType("RotateCmd"))
  /\ conversion.value = ButtplugDeviceMessageType("RotateCmd")
  /\ conversion.ret = Ok(ButtplugActuatorFeatureMessageType("RotateCmd"))

\* C25: battery_level() returns the first value of the reading over 100,
\* and for every reading the server produces from a battery read the result
\* lies between 0 and 1.
C25_BatteryLevelFraction ==
  conversion.op = "battery_level" =>
    /\ conversion.ret.ok
    /\ conversion.ret.val = <<conversion.reply.data[1], 100>>
    /\ ~RatLess(conversion.ret.val, <<0, 1>>)
    /\ ~RatLess(<<1, 1>>, conversion.ret.val)

C25_Witness ==
  /\ conversion.op = "battery_level"
  /\ conversion.battery = 300
  /\ conversion.reply.data = <<100>>
  /\ conversion.ret = Ok(<<100, 100>>)

\* The place of a V0 device message type among the four, their names taken
\* in dictionary order.
NameRank(message_type) ==
  CASE message_type = ButtplugDeviceMessageType("FleshlightLaunchFW12Cmd") -> 1
    [] message_type = ButtplugDeviceMessageType("SingleMotorVibrateCmd") -> 2
    [] message_type = ButtplugDeviceMessageType("StopDeviceCmd") -> 3
    [] message_type = ButtplugDeviceMessageType("VorzeA10CycloneCmd") -> 4
    [] OTHER -> 0

\* C39: the device message list of the DeviceMessageInfoV0 made from a
\* DeviceMessageInfoV1 always holds StopDeviceCmd, holds
\* SingleMotorVibrateCmd, FleshlightLaunchFW12Cmd and VorzeA10CycloneCmd
\* each exactly when the V1 attribute of that name is present, holds no
\* other type and no type twice, and is in the dictionary order of the
\* type names; device index and name are those of the V1 value.
C39_DeviceMessagesV0 ==
  conversion.op = "from_v1" =>
    LET attributes == conversion.msg.device_messages
        messages == conversion.ret.device_messages
        Holds(variant) ==
          \E i \in 1..Len(messages) :
            messages[i] = ButtplugDeviceMessageType(variant)
    IN /\ Holds("StopDeviceCmd")
       /\ Holds("SingleMotorVibrateCmd") <=>
            attributes.single_motor_vibrate_cmd.some
       /\ Holds("FleshlightLaunchFW12Cmd") <=>
            attributes.fleshlight_launch_fw12_cmd.some
       /\ Holds("VorzeA10CycloneCmd") <=>
            attributes.vorze_a10_cyclone_cmd.some
       /\ \A i \in 1..Len(messages) : NameRank(messages[i]) # 0
       /\ \A i \in 1..(Len(messages) - 1) :
            NameRank(messages[i]) < NameRank(messages[i + 1])
       /\ conversion.ret.device_index = conversion.msg.device_index
       /\ conversion.ret.device_name = conversion.msg.device_name

C39_Witness ==
  /\ conversion.op = "from_v1"
  /\ conversion.msg.device_index = 1
  /\ conversion.msg.device_name = "Device B"
  /\ conversion.msg.device_messages.vibrate_cmd.some
  /\ conversion.msg.device_messages.single_motor_vibrate_cmd.some
  /\ conversion.msg.device_messages.fleshlight_launch_fw12_cmd.some
  /\ conversion.msg.device_messages.vorze_a10_cyclone_cmd.some
  /\ conversion.ret =
       [device_index |-> 1, device_name |-> "Device B",
        device_messages |->
          <<ButtplugDeviceMessageType("FleshlightLaunchFW12Cmd"),
            ButtplugDeviceMessageType("SingleMotorVibrateCmd"),
            ButtplugDeviceMessageType("StopDeviceCmd"),
            ButtplugDeviceMessageType("VorzeA10CycloneCmd")>>]

----------------------------------------------------------------------------
\* A protocol handler driving the manager
\* (server/device/protocol/libo_shark.rs): commands reach update_scalar and
\* update_rotation one at a time, and what update_scalar returns is turned
\* into the writes the device receives.

\* The LiboShark devices: two vibrators.  The test of libo_shark.rs drives
\* a device whose motors take 0.5 as 2 and 1.0 as 3; the second device uses
\* the whole nibble.
LiboSharkDevices ==
  { <<Vibrator(0, 3), Vibrator(0, 3)>>,
    <<Vibrator(0, 15), Vibrator(0, 15)>> }

\* Devices with a scalar-only and a rotate-only feature, in both orders.
MixedDevices ==
  { <<Vibrator(0, 20), Rotator(0, 20)>>,
    <<Rotator(0, 20), Vibrator(10, 15)>> }

ProtocolDevices == LiboSharkDevices \cup MixedDevices

\* HardwareWriteCmd::new(endpoint, data, write_with_response)
HardwareWriteCmd(endpoint, data, write_with_response) ==
  [endpoint |-> endpoint, data |-> data,
   write_with_response |-> write_with_response]

\* a | b on unsigned integers
RECURSIVE BitOr(_, _)
BitOr(a, b) ==
  IF a = 0 THEN b
  ELSE IF b = 0 THEN a
  ELSE (IF a % 2 = 1 \/ b % 2 = 1 THEN 1 ELSE 0)
       + 2 * BitOr(a \div 2, b \div 2)

\* (x << n) on u8: the bits shifted out are lost.
ShlU8(x, n) == (x * 2^n) % 2^8

\* handle_scalar_cmd putting both speeds into the low nibble.
handle_scalar_cmd_unshifted(cmds) ==
  LET first == IF cmds[1].some THEN BitOr(0, AsU8(cmds[1].val[2])) ELSE 0
      data == IF cmds[2].some THEN BitOr(first, AsU8(cmds[2].val[2]))
              ELSE first
  IN Ok(<<HardwareWriteCmd("Tx", <<data>>, FALSE)>>)

\* LiboShark::handle_scalar_cmd: one byte, motor 0 in the high nibble and
\* motor 1 in the low one; a None slot leaves its nibble 0.
handle_scalar_cmd(cmds) ==
  LET first == IF cmds[1].some
                 THEN BitOr(0, ShlU8(AsU8(cmds[1].val[2]), 4)) ELSE 0
      data == IF cmds[2].some THEN BitOr(first, AsU8(cmds[2].val[2]))
              ELSE first
  IN Ok(<<HardwareWriteCmd("Tx", <<data>>, FALSE)>>)

\* LiboShark cannot set one motor alone: its commands are matched against
\* all features.
needs_full_command_set(feats) == feats \in LiboSharkDevices

\* The hardware commands of one ScalarCmd: none when update_scalar fails or
\* returns the empty result, the handler's otherwise.
ScalarCmdWrites(feats, ret) ==
  IF ret.ok /\ ret.val # <<>> /\ feats \in LiboSharkDevices
    THEN handle_scalar_cmd(ret.val).val
    ELSE <<>>

\* The values a result hands to the device, over the values handed before.
Emit(before, ret) ==
  [i \in DOMAIN before |->
     IF ret.ok /\ ret.val # <<>> /\ ret.val[i].some
       THEN Some(ret.val[i].val[2])
       ELSE before[i]]

\* Values of the commands sent through a protocol handler.
ProtocolValues == {Zero, <<1, 2>>, <<1, 1>>}

ProtocolScalarCmds(feats) ==
  { ScalarCmd(1, scalars) :
      scalars \in SeqsUpTo(
        { ScalarSubcommand(i, v, "Vibrate") :
            i \in Indices(Len(ScalarFeatures(feats))), v \in ProtocolValues },
        MaxSubcommands) }

\* new(features) of a device that has received nothing yet.
InitProtocol ==
  /\ features \in ProtocolDevices
  /\ cache = NewCache(features)
  /\ sent_scalar = FALSE
  /\ sent_rotation = FALSE
  /\ stop_commands = NewStopCommands(features)
  /\ call = NoCall
  /\ pre = NewSnapshot(features)
  /\ last = NoCall
  /\ threads = <<>>
  /\ device_actuator = None
  /\ message_sender = <<>>
  /\ client_call = NoCall
  /\ conversion = None
  /\ emitted = [i \in 1..Len(ScalarFeatures(features)) |-> None]
  /\ toy_info = <<>>
  /\ watcher = <<>>
  /\ event_sender = <<>>

\* update_scalar(msg, match_all) and the handling of its result.
HandleScalarCmd(msg, match_all, stop) ==
  LET r == update_scalar(features, cache, sent_scalar, msg, match_all)
  IN /\ cache' = r.cache
     /\ sent_scalar' = r.sent
     /\ emitted' = Emit(emitted, r.ret)
     /\ call' = [op |-> "update_scalar", msg |-> msg, match_all |-> match_all,
                 new |-> Snapshot = NewSnapshot(features),
                 raw |-> r.raw, ret |-> r.ret, stop |-> stop,
                 emitted |-> emitted,
                 writes |-> ScalarCmdWrites(features, r.ret)]
     /\ pre' = Snapshot
     /\ last' = call
     /\ UNCHANGED <<features, sent_rotation, stop_commands>>
     /\ UNCHANGED <<threads, client_vars, conversion>>
     /\ UNCHANGED <<toy_info, watcher, event_sender>>

\* A ScalarCmd arrives for the device.
ProtocolScalarCmd ==
  /\ call = NoCall
  /\ \E msg \in ProtocolScalarCmds(features),
        match_all \in (IF needs_full_command_set(features)
                         THEN {TRUE} ELSE BOOLEAN) :
       HandleScalarCmd(msg, match_all, FALSE)

\* The device is stopped: the ScalarCmd of stop_commands() goes the way of
\* any ScalarCmd.
ProtocolStopScalar ==
  /\ call = NoCall
  /\ \E k \in 1..Len(stop_commands) :
       /\ stop_commands[k].type = "ScalarCmd"
       /\ HandleScalarCmd(stop_commands[k],
                          needs_full_command_set(features), TRUE)

NextProtocol ==
  \/ ProtocolScalarCmd
  \/ ProtocolStopScalar
  \/ UpdateRotation
  \/ Return

SpecProtocol == InitProtocol /\ [][NextProtocol]_vars

----------------------------------------------------------------------------
\* Vocabulary of the properties of the handler.

\* The value the device last received for scalar slot i before the call.
EmittedBefore(i) == call.emitted[i]

\* The call went to a LiboShark device.
LiboSharkCall == ScalarCall /\ features \in LiboSharkDevices

\* The call passed the ScalarCmd of stop_commands().
StopScalarCall == ScalarCall /\ call.stop

\* The speed motor i (a slot, 1-based) is asked to run at once the command
\* is done: the last one commanded for it, or the one it had.
MotorSpeed(i) ==
  IF Addressing(Subcommands, i) # {} THEN LastComputed(i)
  ELSE IF EmittedBefore(i).some THEN EmittedBefore(i).val
  ELSE 0

\* Some subcommand asks for a speed its motor is not known to run at.
ChangesMotor ==
  \E j \in 1..Len(Subcommands) :
    LET before == EmittedBefore(Subcommands[j].index + 1)
    IN ~before.some \/ Computed(j) # before.val

\* C31: on a device with a scalar-only and a rotate-only feature, under any
\* sequence of update_scalar and update_rotation calls, a successful
\* update_scalar emits the slot of every subcommand whose computed value
\* differs from the value last emitted for its feature.
C31_ScalarDedupeAgainstEmitted ==
  (ScalarCall /\ call.ret.ok /\ features \in MixedDevices) =>
    \A j \in 1..Len(Subcommands) :
      LET i == Subcommands[j].index + 1
      IN (EmittedBefore(i).some /\ Computed(j) # EmittedBefore(i).val) =>
           /\ call.ret.val # <<>>
           /\ call.ret.val[i].some

\* C33: passing the ScalarCmd of stop_commands() to update_scalar succeeds,
\* leaves the cached value of every scalar-capable feature at 0, and the
\* result holds Some(0) in the slot of every feature whose cached value was
\* not 0.
C33_StopScalarZeroes ==
  StopScalarCall =>
    /\ call.ret.ok
    /\ \A p \in Capable("ScalarCmd") : cache[p].scalar = 0
    /\ \A i \in ScalarSlots :
         LET p == FeatureAt("ScalarCmd", i)
         IN pre.cache[p].scalar # 0 =>
              /\ call.ret.val # <<>>
              /\ call.ret.val[i] = Some(<<features[p].feature_type, 0>>)

C33_Witness ==
  /\ StopScalarCall
  /\ features = <<Vibrator(0, 15), Vibrator(0, 15)>>
  /\ pre.cache[1].scalar = 8
  /\ pre.cache[2].scalar = 15
  /\ call.emitted = <<Some(8), Some(15)>>
  /\ call.ret = Ok(<<Some(<<"Vibrate", 0>>), Some(<<"Vibrate", 0>>)>>)
  /\ cache[1].scalar = 0
  /\ cache[2].scalar = 0

\* C36: on a two-motor LiboShark device, a successful command that changes
\* the speed of at least one motor produces exactly one write to Tx, whose
\* byte holds motor 0's speed in the high nibble and motor 1's in the low
\* one, a motor the command does not address keeping its last speed, and a
\* command that changes nothing produces no write.
C36_LiboSharkOneWritePerChange ==
  (LiboSharkCall /\ call.ret.ok) =>
    IF ChangesMotor
      THEN call.writes =
             <<HardwareWriteCmd("Tx", <<16 * MotorSpeed(1) + MotorSpeed(2)>>,
                                FALSE)>>
      ELSE call.writes = <<>>

----------------------------------------------------------------------------
\* The connection check of LovenseServiceHardware
\* (hardware/communication/lovense_connect_service/
\* lovense_connect_service_hardware.rs): new() spawns a task that polls
\* toy_info.connected once a second and, when it reads false, sends
\* HardwareEvent::Disconnected on the hardware's broadcast channel and exits.

\* The toys of the Lovense Connect service, one hardware instance each.
Toys == {"toy_a", "toy_b"}

\* Receivers one hardware's event_stream() hands out in the model.
MaxReceivers == 2

\* HardwareEvent::Disconnected(toy_id)
Disconnected(toy_id) == [event |-> "Disconnected", address |-> toy_id]

\* The task as new() spawns it: about to read toy_info, nothing read yet.
NewWatcher == [pc |-> "read", observed |-> None, sends |-> <<>>]

\* broadcast::channel(256), its first receiver dropped: no receiver, and no
\* event received by anyone.
NewChannel == [receivers |-> 0, received |-> <<>>]

\* The loop condition taken the wrong way round: the task leaves the loop
\* when the toy is connected.
ConnectionCheckInverted(connected) == IF connected THEN "send" ELSE "delay"

\* while toy_info_clone.read().await.connected: the loop body follows when
\* the toy is connected, the send when it is not.
ConnectionCheck(connected) == IF connected THEN "delay" ELSE "send"

\* broadcast::Sender::send: every receiver subscribed at the time gets the
\* value; with no receiver the value is dropped (and the Err is ignored by
\* the task: let _ = ...).
Send(channel, event) ==
  IF channel.receivers = 0 THEN channel
  ELSE [channel EXCEPT !.received = Append(@, event)]

\* LovenseServiceHardware::new for every toy the service reports.
InitLovense ==
  /\ toy_info = [t \in Toys |-> [connected |-> TRUE, battery |-> 100]]
  /\ watcher = [t \in Toys |-> NewWatcher]
  /\ event_sender = [t \in Toys |-> NewChannel]
  /\ emitted = <<>>
  /\ conversion = None
  /\ device_actuator = None
  /\ message_sender = <<>>
  /\ client_call = NoCall
  /\ features = <<>>
  /\ cache = NewCache(features)
  /\ sent_scalar = FALSE
  /\ sent_rotation = FALSE
  /\ stop_commands = NewStopCommands(features)
  /\ call = NoCall
  /\ pre = NewSnapshot(features)
  /\ last = NoCall
  /\ threads = <<>>

\* The communication manager, holder of the other handle of toy_info,
\* writes what the service reports for the toy.
UpdateToyInfo(t) ==
  /\ \E connected \in BOOLEAN :
       /\ connected # toy_info[t].connected
       /\ toy_info' = [toy_info EXCEPT ![t].connected = connected]
  /\ UNCHANGED <<watcher, event_sender, emitted>>
  /\ UNCHANGED <<manager_vars, threads, client_vars, conversion>>

\* toy_info_clone.read().await.connected
WatcherRead(t) ==
  /\ watcher[t].pc = "read"
  /\ watcher' = [watcher EXCEPT
                   ![t].pc = ConnectionCheck(toy_info[t].connected),
                   ![t].observed = Some(toy_info[t].connected)]
  /\ UNCHANGED <<toy_info, event_sender, emitted>>
  /\ UNCHANGED <<manager_vars, threads, client_vars, conversion>>

\* Delay::new(Duration::from_secs(1)).await
WatcherDelay(t) ==
  /\ watcher[t].pc = "delay"
  /\ watcher' = [watcher EXCEPT ![t].pc = "read"]
  /\ UNCHANGED <<toy_info, event_sender, emitted>>
  /\ UNCHANGED <<manager_vars, threads, client_vars, conversion>>

\* let _ = sender_clone.send(HardwareEvent::Disconnected(toy_id)), and the
\* task ends.
WatcherSend(t) ==
  /\ watcher[t].pc = "send"
  /\ event_sender' = [event_sender EXCEPT ![t] = Send(@, Disconnected(t))]
  /\ watcher' = [watcher EXCEPT
                   ![t].pc = "exit",
                   ![t].sends = Append(@, Disconnected(t))]
  /\ UNCHANGED <<toy_info, emitted>>
  /\ UNCHANGED <<manager_vars, threads, client_vars, conversion>>

\* LovenseServiceHardware::event_stream: self.event_sender.subscribe()
EventStream(t) ==
  /\ event_sender[t].receivers < MaxReceivers
  /\ event_sender' = [event_sender EXCEPT ![t].receivers = @ + 1]
  /\ UNCHANGED <<toy_info, watcher, emitted>>
  /\ UNCHANGED <<manager_vars, threads, client_vars, conversion>>

NextLovense ==
  \E t \in Toys :
    \/ UpdateToyInfo(t)
    \/ WatcherRead(t)
    \/ WatcherDelay(t)
    \/ WatcherSend(t)
    \/ EventStream(t)

SpecLovense == InitLovense /\ [][NextLovense]_vars

\* The executor runs a spawned task whenever it can make a step, and the
\* one-second timer fires.
WatcherFairness ==
  \A t \in Toys :
    /\ WF_vars(WatcherRead(t))
    /\ WF_vars(WatcherDelay(t))
    /\ WF_vars(WatcherSend(t))

SpecLovenseFair == SpecLovense /\ WatcherFairness

\* C37: the connection check of a hardware instance sends
\* HardwareEvent::Disconnected at most once, and only after it has read
\* toy_info.connected as false, after which it reads nothing more; and when
\* connected becomes false and stays false, the event is eventually sent
\* (the task being scheduled fairly), so that it is sent exactly once.
C37_DisconnectedOnce ==
  /\ [](\A t \in Toys :
          /\ Len(watcher[t].sends) <= 1
          /\ watcher[t].pc \in {"send", "exit"} =>
               watcher[t].observed = Some(FALSE)
          /\ watcher[t].sends # <<>> =>
               /\ watcher[t].sends = <<Disconnected(t)>>
               /\ watcher[t].pc = "exit")
  /\ \A t \in Toys :
       <>[](~toy_info[t].connected) => <>(watcher[t].sends = <<Disconnected(t)>>)

C37_Witness ==
  /\ toy_info["toy_a"].connected = FALSE
  /\ watcher["toy_a"] =
       [pc |-> "exit", observed |-> Some(FALSE),
        sends |-> <<Disconnected("toy_a")>>]
  /\ event_sender["toy_a"] =
       [receivers |-> 1, received |-> <<Disconnected("toy_a")>>]
  /\ watcher["toy_b"].pc = "delay"
  /\ watcher["toy_b"].sends = <<>>

----------------------------------------------------------------------------
\* ButtplugDeviceRawEndpoint (client/device_raw.rs): read() sends a
\* RawReadCmd and resolves the reply.  device_actuator holds the endpoint
\* handle, message_sender the message sent, client_call the call and, once
\* the reply is in, its outcome.

Endpoints == {"Rx", "Tx"}

\* The handles from_message_attributes makes for the devices of the model.
RawEndpoints == [endpoint : Endpoints, device_index : {0, 1}]

\* RawReadCmd::new(device_index, endpoint, expected_length, timeout)
RawReadCmd_new(device_index, endpoint, expected_length, timeout) ==
  [type |-> "RawReadCmd", id |-> 1, device_index |-> device_index,
   endpoint |-> endpoint, expected_length |-> expected_length,
   timeout |-> timeout]

\* ButtplugCurrentSpecServerMessage::RawReading
RawReading(device_index, endpoint, data) ==
  [type |-> "RawReading", id |-> 1, device_index |-> device_index,
   endpoint |-> endpoint, data |-> data]

\* ButtplugCurrentSpecServerMessage::Error
ErrorMessage(error_code, error_message) ==
  [type |-> "Error", id |-> 1, error_code |-> error_code,
   error_message |-> error_message]

\* ButtplugError::from(Error): the error class of the code, with the
\* server's message.
ButtplugError_from(err) ==
  [error |-> CASE err.error_code = "ErrorDevice" -> "ButtplugDeviceError"
               [] err.error_code = "ErrorMessage" -> "ButtplugMessageError"
               [] err.error_code = "ErrorPing" -> "ButtplugPingError"
               [] err.error_code = "ErrorHandshake" -> "ButtplugHandshakeError"
               [] OTHER -> "ButtplugUnknownError",
   text |-> err.error_message]

\* ButtplugMessageError::UnexpectedMessageType(format!("{:?}", msg))
UnexpectedMessageType(msg) ==
  [error |-> "ButtplugMessageError", kind |-> "UnexpectedMessageType",
   text |-> <<"Debug", msg>>]

\* The replies send_message resolves to in the model: readings, server
\* errors, messages of other kinds, and the failures of the send itself.
ServerReplies ==
  { Ok(RawReading(d, e, data)) :
      d \in {0, 1}, e \in Endpoints, data \in {<<>>, <<1, 255>>} }
  \cup
  { Ok(ErrorMessage(code, "device error")) :
      code \in {"ErrorDevice", "ErrorMessage", "ErrorUnknown"} }
  \cup
  { Ok([type |-> "Ok", id |-> 1]),
    Ok([type |-> "ScanningFinished", id |-> 0]),
    Ok([type |-> "SensorReading", id |-> 1, device_index |-> 0,
        sensor_index |-> 0, sensor_type |-> "Battery", data |-> <<100>>]) }
  \cup
  { Err([error |-> "ButtplugConnectorError", text |-> "not connected"]),
    Err([error |-> "ButtplugConnectorError", text |-> "channel closed"]) }

\* The match of read() answering a server Error as any other unexpected
\* message.
read_reply_unmatched_error(reply) ==
  IF ~reply.ok THEN Err(reply.err)
  ELSE IF reply.val.type = "RawReading" THEN Ok(reply.val.data)
  ELSE Err(UnexpectedMessageType(reply.val))

\* The async block of read(): send_fut.await?, then the match on the reply.
read_reply(reply) ==
  IF ~reply.ok THEN Err(reply.err)
  ELSE IF reply.val.type = "RawReading" THEN Ok(reply.val.data)
  ELSE IF reply.val.type = "Error" THEN Err(ButtplugError_from(reply.val))
  ELSE Err(UnexpectedMessageType(reply.val))

InitRaw ==
  /\ device_actuator \in RawEndpoints
  /\ message_sender = <<>>
  /\ client_call = NoCall
  /\ features = <<>>
  /\ cache = NewCache(features)
  /\ sent_scalar = FALSE
  /\ sent_rotation = FALSE
  /\ stop_commands = NewStopCommands(features)
  /\ call = NoCall
  /\ pre = NewSnapshot(features)
  /\ last = NoCall
  /\ threads = <<>>
  /\ conversion = None
  /\ emitted = <<>>
  /\ toy_info = <<>>
  /\ watcher = <<>>
  /\ event_sender = <<>>

\* read(expected_length, timeout): the RawReadCmd is handed to the message
\* sender, and the future returned waits for the reply.
CallRead ==
  /\ client_call = NoCall
  /\ \E expected_length \in {0, 2}, timeout \in {0, 100} :
       /\ message_sender' =
            <<RawReadCmd_new(device_actuator.device_index,
                             device_actuator.endpoint, expected_length,
                             timeout)>>
       /\ client_call' = [op |-> "read", expected_length |-> expected_length,
                          timeout |-> timeout, reply |-> None, ret |-> None]
  /\ UNCHANGED device_actuator
  /\ UNCHANGED <<manager_vars, threads, conversion, hardware_vars>>

\* send_fut resolves and the future of read() with it.
ResolveRead ==
  /\ client_call # NoCall
  /\ client_call.op = "read"
  /\ ~client_call.reply.some
  /\ \E reply \in ServerReplies :
       client_call' = [client_call EXCEPT !.reply = Some(reply),
                                          !.ret = Some(read_reply(reply))]
  /\ UNCHANGED <<device_actuator, message_sender>>
  /\ UNCHANGED <<manager_vars, threads, conversion, hardware_vars>>

\* The caller is done with the outcome.
RawReturn ==
  /\ client_call # NoCall
  /\ client_call.reply.some
  /\ client_call' = NoCall
  /\ message_sender' = <<>>
  /\ UNCHANGED device_actuator
  /\ UNCHANGED <<manager_vars, threads, conversion, hardware_vars>>

NextRaw ==
  \/ CallRead
  \/ ResolveRead
  \/ RawReturn

SpecRaw == InitRaw /\ [][NextRaw]_vars

\* The read() call has its reply.
ReadResolved ==
  client_call # NoCall /\ client_call.op = "read" /\ client_call.reply.some

\* C38: read() resolves to the reading's data iff the reply is a
\* RawReading, to the server's own error when the reply is an Error
\* message, and to an UnexpectedMessageType error for every other kind of
\* reply; a failed send is propagated as the error.
C38_ReadOutcome ==
  ReadResolved =>
    LET reply == client_call.reply.val
        ret == client_call.ret.val
    IN /\ ret.ok <=> (reply.ok /\ reply.val.type = "RawReading")
       /\ ret.ok => ret.val = reply.val.data
       /\ ~reply.ok => ret = Err(reply.err)
       /\ (reply.ok /\ reply.val.type = "Error") =>
            /\ ~ret.ok
            /\ ret.err.text = reply.val.error_message
            /\ ret.err = ButtplugError_from(reply.val)
       /\ (reply.ok /\ reply.val.type \notin {"RawReading", "Error"}) =>
            /\ ~ret.ok
            /\ ret.err.error = "ButtplugMessageError"
            /\ ret.err.kind = "UnexpectedMessageType"

C38_Witness ==
  /\ ReadResolved
  /\ device_actuator = [endpoint |-> "Rx", device_index |-> 1]
  /\ message_sender = <<RawReadCmd_new(1, "Rx", 2, 100)>>
  /\ client_call.reply.val = Ok(ErrorMessage("ErrorDevice", "device error"))
  /\ client_call.ret.val =
       Err([error |-> "ButtplugDeviceError", text |-> "device error"])

====
